---- MODULE Spec2Model ----
(***************************************************************************)
(* A model of MSFS_API, the SimConnect wrapper class: its id allocator,    *)
(* its event-listener table, its one-shot get/set operations, its          *)
(* schedule loop and its connect retry loop; and of AirportHandler, the    *)
(* airport database: its start-up (facility list, cache file, rebuild)     *)
(* and its queries.  The transport (the node-simconnect handle) is         *)
(* modelled by what the code calls on it and by the messages it delivers.  *)
(***************************************************************************)
EXTENDS Integers, Sequences, FiniteSets, TLC

(***************************************************************************)
(* Program constants and the bounds of the model                           *)
(***************************************************************************)

\* nextId: "if (this.id > 900)"
Ceiling == 900

\* the counter value the constructor sets: "this.id = 1"
FirstId == 1

\* the airport module's own nextId: "const startId = 100"
StartId == 100

\* the airport module's own nextId: "if (id > 900)"
HandlerCeiling == 900

\* number of calls (on, off, get, set, trigger, schedule, stop,
\* getSpecial), before or after the connection answers, in one behaviour
\* of Spec
MaxCalls == 2

\* number of direct nextId and releaseId calls in one behaviour of SpecAlloc
MaxAllocCalls == 6

\* number of on and off calls in one behaviour of SpecEvents
MaxEventCalls == 4

\* number of get, set, trigger, schedule and stop calls in one behaviour
\* of SpecRequests
MaxRequestCalls == 3

\* the largest retry count handed to connect
MaxRetries == 3

\* number of connect calls the user makes in one behaviour, and of the
\* nextId calls made beside them in SpecConnect
MaxConnectCalls == 2

\* number of on and off calls in one behaviour of SpecAirportEvents
MaxAirportEventCalls == 3

\* number of airportList pages delivered to one AirportHandler
MaxPages == 3

\* number of allocator calls made while the range fills up
MaxExhaustCalls == 5

\* number of on and off calls made from outside a dispatch
MaxDispatchCalls == 3

\* the longest handler list an event is dispatched to
MaxHandlers == 2

\* number of runways decoded for one airport
MaxDecoded == 1

\* number of facilityData messages delivered to one AirportHandler
MaxData == 1

\* number of airports in a cache file that is queried
MaxAirports == 3

\* number of handler calls that ask api.get for the plane's position in
\* one behaviour of SpecQuery
MaxNearby == 1

\* number of promises get may create in one behaviour
MaxGets == 3

\* length of the longest run of consecutive failing set calls
MaxRun == 899

\* the lengths of such runs: enough to bring the counter to the ceiling
\* from its first values
RunLengths == {MaxRun - 2, MaxRun}

\* `undefined`, the value of a field that was never assigned
Undefined == -1

\* the names of system events handed to on/off
EventNames == {"Pause", "Sim"}

\* the lengths of a caller's runs of nextId calls: up to the whole range
FillLengths == {1, Ceiling - 2, Ceiling - 1, Ceiling}

\* the names of the two special events, AIRPORTS_IN_RANGE.name and
\* AIRPORTS_OUT_OF_RANGE.name
AIRPORTS_IN_RANGE == "AirportsInRage"
AIRPORTS_OUT_OF_RANGE == "AirportsOutOfRange"
AirportEventNames == {AIRPORTS_IN_RANGE, AIRPORTS_OUT_OF_RANGE}

\* the handler functions handed to on/off
Handlers == {"h1", "h2"}

\* the data a system event carries (dwData; Pause sends 0 and 1)
EventData == {0, 1}

\* property names are sequences of characters, so that replaceAll acts on them
KnownUnderscore == <<"A", "_", "B">>
KnownSpace == <<"A", " ", "B">>
UnknownUnderscore == <<"Z", "_", "Z">>
UnknownSpace == <<"Z", " ", "Z">>
ReadOnlyUnderscore == <<"R", "_", "O">>
ReadOnlySpace == <<"R", " ", "O">>

\* the retry counts and the retry intervals (in seconds) handed to connect
RetryCounts == 0..MaxRetries
RetryIntervals == {0, 5}

\* ICAO codes, as sequences of characters
KSEA == <<"K", "S", "E", "A">>
KJFK == <<"K", "J", "F", "K">>
KLAX == <<"K", "L", "A", "X">>

\* the entries a page of the facility list may carry (data.airports)
PageEntries == {<<>>, <<[icao |-> KSEA]>>, <<[icao |-> KJFK], [icao |-> KLAX]>>}

\* the entryNumber and outOf a page may carry
EntryNumbers == 0..3
OutOfs == {0, 1, 3}

\* the states of the cache file in which it exists but does not load:
\* readFileSync throws, gunzipSync throws, JSON.parse throws, or the text
\* is the JSON value null
FailingKinds == {"unreadable", "notGzip", "notJson", "null"}

\* cached airports; latitude and longitude in minutes of arc.  Two of
\* them share an ICAO code, and lie equally far from latitude 0.
AirportA == [icao |-> KSEA, latitude |-> 5, longitude |-> 0]
AirportB == [icao |-> KJFK, latitude |-> 10, longitude |-> 0]
AirportC == [icao |-> KLAX, latitude |-> 20, longitude |-> 0]
AirportD == [icao |-> KSEA, latitude |-> -5, longitude |-> 0]

\* a record as the rebuild stores it for an airport whose facility data
\* carried no header: { icao, runways: [] }, without a position
AirportE == [icao |-> KJFK, runways |-> <<>>]
AirportPool == {AirportA, AirportB, AirportC, AirportD, AirportE}

\* the plane's position, as api.get reports it: among the airports, or
\* so far from them that some lie beyond 200 NM and one exactly 200 NM away
PlaneLatitudes == {0, 210}
PlaneLongitudes == {0}

\* what a simObjectData message carries for a request: the values its
\* definitions read, here a latitude and a longitude
PlaneData == {<<lat, long>> : lat \in PlaneLatitudes, long \in PlaneLongitudes}

\* the names getAllNearbyAirports hands to api.get
PLANE_LATITUDE ==
  <<"P", "L", "A", "N", "E", "_", "L", "A", "T", "I", "T", "U", "D", "E">>
PLANE_LONGITUDE ==
  <<"P", "L", "A", "N", "E", "_", "L", "O", "N", "G", "I", "T", "U", "D", "E">>

\* the table of known simvars (its keys): SimVars[propName] is defined
\* exactly for these
SimVars ==
  {KnownSpace, ReadOnlySpace,
   <<"P", "L", "A", "N", "E", " ", "L", "A", "T", "I", "T", "U", "D", "E">>,
   <<"P", "L", "A", "N", "E", " ", "L", "O", "N", "G", "I", "T", "U", "D", "E">>}

\* the argument lists handed to get
PropLists == {<<KnownUnderscore>>, <<KnownSpace, UnknownUnderscore>>,
              <<UnknownUnderscore>>}

\* the property names handed to set
SetProps == {KnownUnderscore, UnknownUnderscore, ReadOnlyUnderscore}

VARIABLES
  id,              \* this.id, the counter
  reserved,        \* this.reserved
  connected,       \* this.connected
  handle,          \* this.handle: 0 while it is undefined; every open()
                   \* yields a connection of its own, and the handle of
                   \* the k-th connect call is called k
  onEvent,         \* the handles on which connect has registered its
                   \* listener with handle.on("event")
  onAirportList,   \* the listeners registered with handle.on("airportList")
                   \* on the API's handles, in registration order
  specials,        \* the promises getSpecial has returned, in call order
  facilityIds,     \* the ids addAirportHandling gave to
                   \* subscribeToFacilitiesEx1: IN_RANGE, OUT_OF_RANGE of
                   \* each call, in call order
  eventListeners,  \* this.eventListeners, keyed by event name
  subscribeCalls,  \* handle.subscribeToSystemEvent calls made so far, per name
  dataDefs,        \* the data definitions of the API's connections:
                   \* <<DATA_ID, propName, handle>>, handle being the
                   \* connection the definition was added on
  dataListeners,   \* the handlers registered with handle.on("simObjectData")
                   \* on the API's handles, in registration order
  promises,        \* the promises get has returned, in call order
  timers,          \* the pending 500 ms cleanup timers of set, oldest
                   \* first: the id and the handle each callback holds
  sched,           \* the closure state of schedule: run's position and `running`
  calls,           \* number of API calls made so far
  transport,       \* the transport calls made by the last step, in order
  handlerCalls,    \* the handler invocations made by the last step, in order
  allocated,       \* the ids nextId returned during the last step, in order
  released,        \* the ids passed to releaseId during the last step
  lastError,       \* the exception the last step threw, or NoError
  lastOp,          \* the last operation, with the arguments of a call
  conn,            \* the connect(opts) calls the user made, each with the
                   \* state of its retries
  pc,              \* AirportHandler.init: where it stands.  "listed",
                   \* "resolved" and "processed": a listener or
                   \* processAirports has resolved the promise that is
                   \* awaited, and what awaits it has not gone on yet
  airportHandle,   \* AirportHandler: its dedicated connection (this.handle)
  handlerId,       \* the counter of the airport module's own nextId
  requestId,       \* init: the id of its facility-list request
  list,            \* init: the facility-list entries accumulated so far
  listening,       \* init: its "airportList" handler is registered
  file,            \* the cache file at AIRPORT_DB_LOCATION
  airports,        \* AirportHandler: this.airports
  toProcess,       \* init: the entries processAirports has still to fetch
  detail,          \* init: the getAirportDetails call processAirports
                   \* awaits: its request id and its airportData
  detailListeners, \* init: the registered facilityData/facilityDataEnd pairs
  initEffects,     \* init: what it has done so far (requests, writes, ...)
  query            \* the last AirportHandler.get call and what it returned

\* the state of the airport module
airportVars == <<pc, airportHandle, handlerId, requestId, list, listening,
                 file, airports, toProcess, detail, detailListeners,
                 initEffects, query>>

\* the state of the MSFS_API object
apiVars == <<id, reserved, connected, handle, onEvent, onAirportList, specials,
             facilityIds, eventListeners, subscribeCalls, dataDefs,
             dataListeners, promises, timers, sched>>

\* the API's handle, the listeners on the API's handles for "event" and
\* "airportList" messages, and the promises of getSpecial
handleVars == <<handle, onEvent, onAirportList, specials>>

vars == <<id, reserved, connected, handle, onEvent, onAirportList, specials,
          facilityIds, eventListeners, subscribeCalls, dataDefs,
          dataListeners, promises, timers, sched, calls, transport,
          handlerCalls, allocated, released, lastError, lastOp, conn,
          airportVars>>

NoError == [kind |-> "none", prop |-> <<>>]

\* the TypeError of a method call on this.handle while it is undefined,
\* or of a property read on a missing entry
TypeError == [kind |-> "TypeError", prop |-> <<>>]
NoSchedule == [pc |-> "none", running |-> FALSE, ticket |-> 0]

\* a connect(opts) call that has run up to its "await open(...)".
\* requested is the retry count the caller passed, retries what is left
\* of it in opts, onConnect what opts.onConnect does, attempts the open
\* calls made for the call, notified the onRetry calls made for it,
\* promises the state of the promise of each connect invocation (the
\* caller's first), effects what the last step of the call did, in order
NewConnect(n, interval, onConnect) ==
  [pc |-> "open", requested |-> n, retries |-> n, retryInterval |-> interval,
   onConnect |-> onConnect, attempts |-> 1, notified |-> 0,
   promises |-> <<"pending">>, effects |-> <<<<"open">>>>]

\* JavaScript values of the airport module, tagged with their type
UndefinedValue == [t |-> "undefined"]
NullValue == [t |-> "null"]
ListValue(q) == [t |-> "list", v |-> q]

\* fs.existsSync(AIRPORT_DB_LOCATION) is false.  A file record tells what
\* is at the path (kind), the airports in it, and whether fs.writeFileSync
\* can write there (writable): it throws for a path that is a directory,
\* which readFileSync cannot read either, and for one it may not write to
NoFile == [kind |-> "absent", airports |-> <<>>, writable |-> TRUE]

\* init has done nothing yet: the pages its handle delivered, its
\* setDetailFields calls, its requestFacilityData calls, its writes of the
\* cache file, its count-mismatch warnings, its handle.close() calls, its
\* calls of finished, the getAirportDetails promises resolved, the
\* facilityData messages its handle delivered, and the order in which it
\* closed the handle, warned, wrote the file and called finished
NoEffects == [pages |-> 0, detailFields |-> 0, requests |-> 0, writes |-> 0,
              warnings |-> 0, closes |-> 0, finished |-> 0, resolved |-> 0,
              data |-> 0, log |-> <<>>]

\* no facility-detail request is outstanding
NoDetail == [requestID |-> 0, airportData |-> UndefinedValue]

StringValue(str) == [t |-> "string", v |-> str]

\* a finite number: v * 10^e
Number(v, e) == [t |-> "number", v |-> v, e |-> e]
NumberValue(num) == Number(num, 0)
NaN == [t |-> "NaN"]

\* Infinity (sign 1) and -Infinity (sign -1)
InfinityValue(sign) == [t |-> "Infinity", sign |-> sign]

\* an element of this.airports, as Array.prototype.find returns it
AirportValue(a) == [t |-> "airport", v |-> a]

\* an object literal: its keys with their values, in insertion order
ObjectValue(entries) == [t |-> "object", entries |-> entries]

\* neither the handler nor handler.supports has been called.  op is the
\* function called last ("await" for a handler call that waits for
\* api.get), varName its argument, ticket the place in promises of the
\* promise it awaits, plane the position api.get reported to it, result
\* what the handler returned, supports what handler.supports returned
NoQuery == [op |-> "none", varName |-> <<>>, ticket |-> 0, plane |-> <<0, 0>>,
            result |-> UndefinedValue, supports |-> FALSE]

(***************************************************************************)
(* Pure helpers                                                            *)
(***************************************************************************)

\* the special variable names of the airport module
NEARBY_AIRPORTS ==
  <<"N", "E", "A", "R", "B", "Y", " ", "A", "I", "R", "P", "O", "R", "T", "S">>
ALL_AIRPORTS == <<"A", "L", "L", " ", "A", "I", "R", "P", "O", "R", "T", "S">>
AIRPORT == <<"A", "I", "R", "P", "O", "R", "T", ":">>
SPECIAL_VARS == {ALL_AIRPORTS, NEARBY_AIRPORTS, AIRPORT}

\* varName.replaceAll(` `, `_`)
replaceAllSpaces(str) ==
  [i \in 1..Len(str) |-> IF str[i] = " " THEN "_" ELSE str[i]]

\* s.replaceAll(`_`, ` `)
replaceAll(s) == [i \in 1..Len(s) |-> IF s[i] = "_" THEN " " ELSE s[i]]

\* JavaScript truthiness of an event's data: "if (data)"
truthy(d) == d # Undefined /\ d # 0

\* nextId without its while loop
noSkip(c, res) == c

\* the while loop of nextId: the first value from c on that is not reserved
skipReserved(c, res) ==
  LET free == {v \in c..(c + Cardinality(res)) : v \notin res}
  IN CHOOSE v \in free : \A w \in free : v <= w

\* nextId without "this.reserved.add(id)"
nextIdNoAdd(c, res) ==
  LET c0 == IF c > Ceiling THEN 0 ELSE c
      r == skipReserved(c0, res)
  IN [ret |-> r, id |-> r + 1, reserved |-> res]

\* nextId on counter c and reserved set res: the value returned (ret), the
\* counter and the reserved set afterwards
nextId(c, res) ==
  LET c0 == IF c > Ceiling THEN 0 ELSE c
      r == skipReserved(c0, res)
  IN [ret |-> r, id |-> r + 1, reserved |-> res \cup {r}]

\* releaseId: this.reserved.delete(id)
releaseId(i, res) == res \ {i}

\* the MSFS_API object after its constructor
InitApi ==
  /\ id = FirstId
  /\ reserved = {}
  /\ connected = FALSE
  /\ handle = 0
  /\ onEvent = {}
  /\ onAirportList = <<>>
  /\ specials = <<>>
  /\ facilityIds = <<>>
  /\ eventListeners = [n \in {} |-> 0]
  /\ subscribeCalls = [n \in EventNames \cup AirportEventNames |-> 0]
  /\ dataDefs = {}
  /\ dataListeners = <<>>
  /\ promises = <<>>
  /\ timers = <<>>
  /\ sched = NoSchedule
  /\ calls = 0
  /\ transport = <<>>
  /\ handlerCalls = <<>>
  /\ allocated = <<>>
  /\ released = {}
  /\ lastError = NoError
  /\ lastOp = <<"new">>
  /\ conn = <<>>

\* the airport module after it was loaded, no AirportHandler constructed
\* yet, with cache file f on disk
InitAirports(f) ==
  /\ pc = "new"
  /\ airportHandle = "none"
  /\ handlerId = StartId
  /\ requestId = 0
  /\ list = <<>>
  /\ listening = FALSE
  /\ file = f
  /\ airports = UndefinedValue
  /\ toProcess = <<>>
  /\ detail = NoDetail
  /\ detailListeners = <<>>
  /\ initEffects = NoEffects
  /\ query = NoQuery

Init == InitApi /\ InitAirports(NoFile)

\* a direct call of the public method nextId
callNextId ==
  /\ LET a == nextId(id, reserved)
     IN /\ id' = a.id
        /\ reserved' = a.reserved
        /\ allocated' = <<a.ret>>
  /\ calls' = calls + 1
  /\ transport' = <<>> /\ handlerCalls' = <<>> /\ released' = {}
  /\ lastError' = NoError
  /\ lastOp' = <<"nextId">>
  /\ UNCHANGED <<conn, airportVars, handleVars>>
  /\ UNCHANGED <<connected, facilityIds, eventListeners, subscribeCalls,
                 dataDefs, dataListeners, promises, timers, sched>>

\* a direct call of the public method releaseId
callReleaseId(i) ==
  /\ reserved' = releaseId(i, reserved)
  /\ released' = {i}
  /\ calls' = calls + 1
  /\ transport' = <<>> /\ handlerCalls' = <<>> /\ allocated' = <<>>
  /\ lastError' = NoError
  /\ lastOp' = <<"releaseId", i>>
  /\ UNCHANGED <<conn, airportVars, handleVars>>
  /\ UNCHANGED <<id, connected, facilityIds, eventListeners, subscribeCalls,
                 dataDefs, dataListeners, promises, timers, sched>>

\* a caller's loop of n nextId calls, none released, made where the n
\* values from the counter on are free and do not pass the ceiling: each
\* call returns the counter's value and reserves it
nextIdRun(n) ==
  /\ id + n - 1 <= Ceiling
  /\ (id..(id + n - 1)) \cap reserved = {}
  /\ id' = id + n
  /\ reserved' = reserved \cup (id..(id + n - 1))
  /\ allocated' = [i \in 1..n |-> id + i - 1]
  /\ calls' = calls + 1
  /\ transport' = <<>> /\ handlerCalls' = <<>> /\ released' = {}
  /\ lastError' = NoError
  /\ lastOp' = <<"nextIdRun", n>>
  /\ UNCHANGED <<conn, airportVars, handleVars>>
  /\ UNCHANGED <<connected, facilityIds, eventListeners, subscribeCalls,
                 dataDefs, dataListeners, promises, timers, sched>>

(***************************************************************************)
(* connect and the event-listener table                                    *)
(***************************************************************************)

\* addEventListener subscribing again once the handler list is empty
needsSubscribeWhenEmpty(e, eventName) ==
  eventName \notin DOMAIN e \/ e[eventName].handlers = <<>>

\* addEventListener: "if (!e[eventName])"
needsSubscribe(e, eventName) == eventName \notin DOMAIN e

\* addEventListener: "if (data) eventHandler(data)"
replay(data, eventHandler) ==
  IF truthy(data) THEN <<<<eventHandler, data>>>> ELSE <<>>

\* addEventListener(eventName, eventHandler) on the listener table e, with
\* the subscribe calls made so far (sc), the counter c and the reserved
\* set res: the table, the counts, the counter and the set afterwards, the
\* id it took, the transport call and the handler call it made.  The
\* table is keyed by event name; "e[eventID] = e[eventName]" files the
\* same entry under its id as well, and order, the place of the entry
\* among the entries created, tells which entry was filed last under an id.
addEventListener(e, sc, c, res, eventName, eventHandler) ==
  IF needsSubscribe(e, eventName)
  THEN LET a == nextId(c, res)
       IN [eventListeners |->
             (eventName :> [eventID |-> a.ret, data |-> Undefined,
                            handlers |-> <<eventHandler>>,
                            order |-> Cardinality(DOMAIN e) + 1]) @@ e,
           subscribeCalls |-> [sc EXCEPT ![eventName] = @ + 1],
           id |-> a.id,
           reserved |-> a.reserved,
           allocated |-> <<a.ret>>,
           transport |-> <<<<"subscribeToSystemEvent", a.ret, eventName>>>>,
           handlerCalls |-> <<>>]
  ELSE [eventListeners |->
          [e EXCEPT ![eventName].handlers = Append(@, eventHandler)],
        subscribeCalls |-> sc,
        id |-> c,
        reserved |-> res,
        allocated |-> <<>>,
        transport |-> <<>>,
        handlerCalls |-> replay(e[eventName].data, eventHandler)]

\* on(eventDefinition, eventHandler) with eventDefinition.name = eventName:
\* addEventListener.  While this.handle is undefined, addEventListener
\* for a name without an entry takes its id and then throws a TypeError at
\* this.handle.subscribeToSystemEvent, before it makes the entry.
on(eventName, eventHandler) ==
  /\ LET r == addEventListener(eventListeners, subscribeCalls, id, reserved,
                               eventName, eventHandler)
     IN IF handle = 0 /\ needsSubscribe(eventListeners, eventName)
        THEN /\ id' = r.id
             /\ reserved' = r.reserved
             /\ allocated' = r.allocated
             /\ transport' = <<>>
             /\ handlerCalls' = <<>>
             /\ lastError' = TypeError
             /\ UNCHANGED <<eventListeners, subscribeCalls>>
        ELSE /\ eventListeners' = r.eventListeners
             /\ subscribeCalls' = r.subscribeCalls
             /\ id' = r.id
             /\ reserved' = r.reserved
             /\ allocated' = r.allocated
             /\ transport' = r.transport
             /\ handlerCalls' = r.handlerCalls
             /\ lastError' = NoError
  /\ calls' = calls + 1
  /\ released' = {}
  /\ lastOp' = <<"on", eventName, eventHandler>>
  /\ UNCHANGED <<conn, airportVars, handleVars>>
  /\ UNCHANGED <<connected, facilityIds, dataDefs, dataListeners, promises,
                 timers, sched>>

\* what opts.onConnect does: nothing, the default "() => {}", or, as in
\* the README, api.on for a system event
OnConnects ==
  {[op |-> "none", name |-> "Pause", handler |-> "h1"],
   [op |-> "on", name |-> "Pause", handler |-> "h1"]}

\* opts.onConnect(handle)
onConnect(oc, e, sc, c, res) ==
  IF oc.op = "on" THEN addEventListener(e, sc, c, res, oc.name, oc.handler)
  ELSE [eventListeners |-> e, subscribeCalls |-> sc, id |-> c,
        reserved |-> res, allocated |-> <<>>, transport |-> <<>>,
        handlerCalls |-> <<>>]

\* addAirportHandling: two ids for the facility subscription
addAirportHandling(c, res) ==
  LET a == nextId(c, res)
      b == nextId(a.id, a.reserved)
  IN [inRange |-> a.ret, outOfRange |-> b.ret, id |-> b.id,
      reserved |-> b.reserved]

\* a listener on "airportList" messages of handle h: the one
\* addAirportHandling registers ("facility"), the one getSpecial registers
\* for its request ("special", with the place of its promise in specials)
\* or the one getAirportHandler registers ("byName"), with the ids it
\* holds in its closure
Listener(h, kind, ids, ticket) ==
  [handle |-> h, kind |-> kind, ids |-> ids, ticket |-> ticket]

\* a step that calls nothing on the API's transport, runs no event handler,
\* takes and releases no id and throws nothing to its caller
noApiEffects ==
  /\ transport' = <<>>
  /\ handlerCalls' = <<>>
  /\ allocated' = <<>>
  /\ released' = {}
  /\ lastError' = NoError

\* connect's catch block without its decrement
retriesKept(retries) == retries

\* connect's catch block: "opts.retries--"
retriesLeft(retries) == retries - 1

\* connect's catch block, for the opts at hand: what it does, in order
catchEffects(retries, retryInterval) ==
  IF retries # 0
  THEN <<<<"onRetry", retriesLeft(retries), retryInterval>>,
         <<"setTimeout", 1000 * retryInterval>>>>
  ELSE <<<<"throw", "No connection to MSFS">>>>

\* connect(opts), called by the user with opts.retries = n,
\* opts.retryInterval = interval and opts.onConnect = oc: the function
\* runs up to "await open(...)" and returns to the event loop.  Nothing
\* keeps a second call from being made while the first one waits.
connectCall(n, interval, oc) ==
  /\ conn' = Append(conn, NewConnect(n, interval, oc))
  /\ noApiEffects
  /\ lastOp' = <<"connectCall", n, interval>>
  /\ UNCHANGED <<apiVars, airportVars, calls>>

\* open rejects, or yields no handle, for the k-th connect call: the catch
\* block of the connect invocation that awaited it.  With retries left the
\* invocation returns normally, so its promise is fulfilled; without, it
\* throws, so its promise is rejected.
openFails(k) ==
  /\ k \in 1..Len(conn)
  /\ conn[k].pc = "open"
  /\ LET c == conn[k]
         last == Len(c.promises)
     IN IF c.retries # 0
        THEN /\ conn' = [conn EXCEPT
                           ![k] = [c EXCEPT
                                     !.pc = "timer",
                                     !.retries = retriesLeft(@),
                                     !.notified = @ + 1,
                                     !.promises[last] = "fulfilled",
                                     !.effects = catchEffects(c.retries,
                                                              c.retryInterval)]]
             /\ lastError' = NoError
        ELSE /\ conn' = [conn EXCEPT
                           ![k] = [c EXCEPT
                                     !.pc = "failed",
                                     !.promises[last] = "rejected",
                                     !.effects = catchEffects(c.retries,
                                                              c.retryInterval)]]
             /\ lastError' = [kind |-> "No connection to MSFS", prop |-> <<>>]
  /\ transport' = <<>> /\ handlerCalls' = <<>> /\ allocated' = <<>>
  /\ released' = {}
  /\ lastOp' = <<"openFails", k>>
  /\ UNCHANGED <<apiVars, airportVars, calls>>

\* the callback of setTimeout(() => this.connect(opts), ...) of the k-th
\* connect call: a new connect invocation, with a promise of its own that
\* nobody holds
retryTimer(k) ==
  /\ k \in 1..Len(conn)
  /\ conn[k].pc = "timer"
  /\ conn' = [conn EXCEPT ![k] = [@ EXCEPT !.pc = "open",
                                           !.attempts = @ + 1,
                                           !.promises = Append(@, "pending"),
                                           !.effects = <<<<"open">>>>]]
  /\ noApiEffects
  /\ lastOp' = <<"retryTimer", k>>
  /\ UNCHANGED <<apiVars, airportVars, calls>>

\* open yields a handle to the invocation of the k-th connect call that
\* awaited it: this.handle, this.connected, opts.onConnect(handle),
\* handle.on("event"), handle.on("exception"), addAirportHandling(handle).
\* A connect that succeeds on an object that is connected already
\* replaces this.handle, registers its listeners on the new handle and
\* takes its two ids all the same; the handles of earlier calls stay
\* open, with their listeners.
openSucceeds(k) ==
  /\ k \in 1..Len(conn)
  /\ conn[k].pc = "open"
  /\ connected' = TRUE
  /\ handle' = k
  /\ LET o == onConnect(conn[k].onConnect, eventListeners, subscribeCalls,
                        id, reserved)
         f == addAirportHandling(o.id, o.reserved)
     IN /\ eventListeners' = o.eventListeners
        /\ subscribeCalls' = o.subscribeCalls
        /\ id' = f.id
        /\ reserved' = f.reserved
        /\ facilityIds' = facilityIds \o <<f.inRange, f.outOfRange>>
        /\ allocated' = o.allocated \o <<f.inRange, f.outOfRange>>
        /\ transport' =
             Append(o.transport,
                    <<"subscribeToFacilitiesEx1", f.inRange, f.outOfRange>>)
        /\ handlerCalls' = o.handlerCalls
        /\ onAirportList' =
             Append(onAirportList,
                    Listener(k, "facility", <<f.inRange, f.outOfRange>>, 0))
  /\ onEvent' = onEvent \cup {k}
  /\ conn' = [conn EXCEPT
                ![k] = [@ EXCEPT !.pc = "connected",
                                 !.promises[Len(conn[k].promises)] = "fulfilled",
                                 !.effects = <<<<"onConnect">>>>]]
  /\ released' = {} /\ lastError' = NoError
  /\ lastOp' = <<"openSucceeds", k>>
  /\ UNCHANGED <<specials, dataDefs, dataListeners, promises, timers, sched,
                 calls, airportVars>>

\* obj.handlers.findIndex((h) => h === eventHandler): 0 for JavaScript's -1
findIndex(handlers, eventHandler) ==
  IF \E i \in 1..Len(handlers) : handlers[i] = eventHandler
  THEN CHOOSE i \in 1..Len(handlers) :
         /\ handlers[i] = eventHandler
         /\ \A j \in 1..(i - 1) : handlers[j] # eventHandler
  ELSE 0

\* handlers.splice(pos, 1)
splice(handlers, pos) ==
  [i \in 1..(Len(handlers) - 1) |->
     IF i < pos THEN handlers[i] ELSE handlers[i + 1]]

\* removeEventListener, for an event name that has an entry
removeEventListener(handlers, eventHandler) ==
  LET pos == findIndex(handlers, eventHandler)
  IN IF pos > 0 THEN splice(handlers, pos) ELSE handlers

\* off(eventName, eventHandler), also the function on returns.  For a name
\* without an entry obj is undefined and obj.handlers throws a TypeError.
off(eventName, eventHandler) ==
  /\ IF eventName \in DOMAIN eventListeners
     THEN /\ eventListeners' =
               [eventListeners EXCEPT ![eventName].handlers =
                  removeEventListener(@, eventHandler)]
          /\ lastError' = NoError
     ELSE /\ lastError' = TypeError
          /\ UNCHANGED eventListeners
  /\ calls' = calls + 1
  /\ transport' = <<>> /\ handlerCalls' = <<>> /\ allocated' = <<>>
  /\ released' = {}
  /\ lastOp' = <<"off", eventName, eventHandler>>
  /\ UNCHANGED <<conn, airportVars, handleVars>>
  /\ UNCHANGED <<id, reserved, connected, facilityIds, subscribeCalls,
                 dataDefs, dataListeners, promises, timers, sched>>

\* the lookup that finds every entry, whatever the id
entryNamesAny(e, eventID) == DOMAIN e

\* the names whose entry was filed under eventID by
\* "e[eventID] = e[eventName]"
entryNames(e, eventID) == {n \in DOMAIN e : e[n].eventID = eventID}

\* this.eventListeners[eventID], for an id that has an entry: the name of
\* the entry filed under the id last
entryFor(e, eventID) ==
  CHOOSE n \in entryNames(e, eventID) :
    \A m \in entryNames(e, eventID) : e[m].order <= e[n].order

\* the handlers called last to first
forEachHandlerReversed(handlers, data) ==
  [i \in 1..Len(handlers) |-> <<handlers[Len(handlers) + 1 - i], data>>]

\* entry.handlers.forEach((handle) => handle(data))
forEachHandler(handlers, data) ==
  [i \in 1..Len(handlers) |-> <<handlers[i], data>>]

\* an "event" message on handle h: the listener connect registered on
\* that handle calls handleSystemEvent with it
handleSystemEvent(h, eventID, data) ==
  /\ h \in onEvent
  /\ IF entryNames(eventListeners, eventID) = {}
     THEN /\ handlerCalls' = <<>>
          /\ UNCHANGED eventListeners
     ELSE LET n == entryFor(eventListeners, eventID)
          IN /\ eventListeners' = [eventListeners EXCEPT ![n].data = data]
             /\ handlerCalls' =
                  forEachHandler(eventListeners[n].handlers, data)
  /\ transport' = <<>> /\ allocated' = <<>> /\ released' = {}
  /\ lastError' = NoError
  /\ lastOp' = <<"event", eventID, h>>
  /\ UNCHANGED <<conn, airportVars, handleVars>>
  /\ UNCHANGED <<id, reserved, connected, facilityIds, subscribeCalls,
                 dataDefs, dataListeners, promises, timers, sched, calls>>

\* what a handler does when it is called: nothing, api.off for a handler
\* of the event it is called for, or api.on of a third handler for it
HandlerActions ==
  {[op |-> "none", arg |-> "h3"], [op |-> "on", arg |-> "h3"]}
    \cup {[op |-> "off", arg |-> h] : h \in Handlers}

\* what each handler does when called; the third handler does nothing
Scripts ==
  {s \in [Handlers \cup {"h3"} -> HandlerActions] : s["h3"].op = "none"}

\* entry.handlers.forEach((handle) => handle(data)) while the handlers
\* change entry.handlers: forEach visits the indices below the length the
\* array had when it began (len), skipping an index the array no longer
\* has.  A handler's off splices the array, a handler's on pushes to it
\* and replays entry.data, which is data already.  k is the index to
\* visit next, counted from 1, called the calls made so far.
RECURSIVE forEachLive(_, _, _, _, _, _)
forEachLive(k, len, handlers, data, script, called) ==
  IF k > len THEN [handlers |-> handlers, called |-> called]
  ELSE IF k > Len(handlers)
  THEN forEachLive(k + 1, len, handlers, data, script, called)
  ELSE LET h == handlers[k]
           act == script[h]
           after == IF act.op = "off"
                    THEN removeEventListener(handlers, act.arg)
                    ELSE IF act.op = "on" THEN Append(handlers, act.arg)
                    ELSE handlers
           replayed == IF act.op = "on" THEN replay(data, act.arg) ELSE <<>>
       IN forEachLive(k + 1, len, after, data, script,
                      Append(called, <<h, data>>) \o replayed)

\* an "event" message on handle h for handlers that call off or on while
\* they run
handleSystemEventWith(h, eventID, data, script) ==
  /\ h \in onEvent
  /\ IF entryNames(eventListeners, eventID) = {}
     THEN /\ handlerCalls' = <<>>
          /\ UNCHANGED eventListeners
     ELSE LET n == entryFor(eventListeners, eventID)
              handlers == eventListeners[n].handlers
              r == forEachLive(1, Len(handlers), handlers, data, script, <<>>)
          IN /\ eventListeners' =
                  [eventListeners EXCEPT ![n].data = data,
                                         ![n].handlers = r.handlers]
             /\ handlerCalls' = r.called
  /\ transport' = <<>> /\ allocated' = <<>> /\ released' = {}
  /\ lastError' = NoError
  /\ lastOp' = <<"dispatch", eventID, data, script, h>>
  /\ UNCHANGED <<conn, airportVars, handleVars>>
  /\ UNCHANGED <<id, reserved, connected, facilityIds, subscribeCalls,
                 dataDefs, dataListeners, promises, timers, sched, calls>>

\* the sequences of a sequence, one after the other
RECURSIVE flatten(_)
flatten(qs) == IF qs = <<>> THEN <<>> ELSE Head(qs) \o flatten(Tail(qs))

\* the listener addAirportHandling registers, for a message with
\* requestID and data.airports = data: it looks the entry up under the
\* message's id, "this.eventListeners[id]?.handlers.forEach"
facilityListener(e, requestID, data) ==
  IF entryNames(e, requestID) = {} THEN <<>>
  ELSE forEachHandler(e[entryFor(e, requestID)].handlers, data)

\* the listener getAirportHandler registers, IN_RANGE and OUT_OF_RANGE
\* being the ids it took: for a message with one of them it looks the
\* entry up under the name of the event,
\* "api.eventListeners[eventName]?.handlers.forEach"
byNameListener(IN_RANGE, OUT_OF_RANGE, e, requestID, data) ==
  LET eventName == IF requestID = IN_RANGE THEN AIRPORTS_IN_RANGE
                   ELSE AIRPORTS_OUT_OF_RANGE
  IN IF requestID \in {IN_RANGE, OUT_OF_RANGE} /\ eventName \in DOMAIN e
     THEN forEachHandler(e[eventName].handlers, data)
     ELSE <<>>

\* the handlers one listener on "airportList" calls for a message; the
\* listener of getSpecial calls none
listenerCalls(l, e, requestID, data) ==
  IF l.kind = "facility" THEN facilityListener(e, requestID, data)
  ELSE IF l.kind = "byName"
  THEN byNameListener(l.ids[1], l.ids[2], e, requestID, data)
  ELSE <<>>

\* getSpecial's handler: "if (data.requestID === getID)"
answers(l, requestID) == l.kind = "special" /\ l.ids[1] = requestID

\* an "airportList" message on handle h; data stands for the message's
\* data.airports.  Every listener registered on that handle sees it, in
\* registration order: those of addAirportHandling and getAirportHandler
\* call handlers, and getSpecial's handler, when the message carries its
\* id, unregisters itself, releases the id and resolves its promise.
airportList(h, requestID, data) ==
  LET heard == SelectSeq(onAirportList, LAMBDA l : l.handle = h)
      hit == SelectSeq(heard, LAMBDA l : answers(l, requestID))
      tickets == {hit[i].ticket : i \in 1..Len(hit)}
      ids == {hit[i].ids[1] : i \in 1..Len(hit)}
  IN /\ h \in onEvent
     /\ handlerCalls' =
          flatten([i \in 1..Len(heard) |->
                     listenerCalls(heard[i], eventListeners, requestID, data)])
     /\ onAirportList' =
          SelectSeq(onAirportList,
                    LAMBDA l : ~(l.handle = h /\ answers(l, requestID)))
     /\ specials' = [t \in 1..Len(specials) |->
                       IF t \in tickets
                       THEN [specials[t] EXCEPT !.state = "resolved",
                                                !.value = data]
                       ELSE specials[t]]
     /\ reserved' = reserved \ ids
     /\ released' = ids
     /\ transport' = <<>> /\ allocated' = <<>>
     /\ lastError' = NoError
     /\ lastOp' = <<"airportList", requestID, h>>
     /\ UNCHANGED <<conn, airportVars, handle, onEvent>>
     /\ UNCHANGED <<id, connected, facilityIds, eventListeners,
                    subscribeCalls, dataDefs, dataListeners, promises, timers,
                    sched, calls>>

\* getSpecial(propName).  The result of its first statement,
\* propName.replaceAll(` `, `_`), is dropped, so the name is compared as
\* it was passed.  NEARBY_AIRPORTS takes an id, registers a listener for
\* the answer and requests the facility list; ALL_AIRPORTS warns and, on
\* an object constructed without an AirportDB, returns [] at once; any
\* other name returns undefined.  While this.handle is undefined the
\* promise for NEARBY_AIRPORTS is rejected by the TypeError of handle.on,
\* its id taken and not released.
getSpecial(propName) ==
  /\ IF propName = replaceAllSpaces(NEARBY_AIRPORTS)
     THEN LET a == nextId(id, reserved)
              getID == a.ret
          IN /\ id' = a.id
             /\ reserved' = a.reserved
             /\ allocated' = <<getID>>
             /\ IF handle = 0
                THEN /\ specials' =
                          Append(specials,
                                 [getID |-> getID, state |-> "rejected",
                                  value |-> Undefined])
                     /\ transport' = <<>>
                     /\ UNCHANGED onAirportList
                ELSE /\ onAirportList' =
                          Append(onAirportList,
                                 Listener(handle, "special", <<getID>>,
                                          Len(specials) + 1))
                     /\ specials' =
                          Append(specials,
                                 [getID |-> getID, state |-> "pending",
                                  value |-> Undefined])
                     /\ transport' =
                          <<<<"requestFacilitiesListEx1", getID>>>>
     ELSE /\ allocated' = <<>>
          /\ transport' = <<>>
          /\ UNCHANGED <<id, reserved, onAirportList, specials>>
  /\ calls' = calls + 1
  /\ handlerCalls' = <<>> /\ released' = {} /\ lastError' = NoError
  /\ lastOp' = <<"getSpecial", propName>>
  /\ UNCHANGED <<conn, airportVars, handle, onEvent>>
  /\ UNCHANGED <<connected, facilityIds, eventListeners, subscribeCalls,
                 dataDefs, dataListeners, promises, timers, sched>>

(***************************************************************************)
(* get, set, trigger and the messages and timers that end them             *)
(***************************************************************************)

\* the ids an inbound message may carry: every reserved id, and one that
\* is not reserved
MessageIds == reserved \cup {id}

\* const def = SimVars[propName]; def === undefined
unknown(propName) == propName \notin SimVars

\* addDataDefinitions: the position of the first name without a definition,
\* 0 when every name has one
firstUnknown(propNames) ==
  IF \E i \in 1..Len(propNames) : unknown(propNames[i])
  THEN CHOOSE i \in 1..Len(propNames) :
         /\ unknown(propNames[i])
         /\ \A j \in 1..(i - 1) : ~unknown(propNames[j])
  ELSE 0

\* addDataDefinitions with h = this.handle: the transport calls it
\* makes, the definitions it leaves under DATA_ID on h, the ids it
\* releases and the error it throws.  While the handle is undefined
\* (h = 0) its first call on it, handle.addToDataDefinition for a known
\* first name and handle.clearDataDefinition for an unknown one, throws a
\* TypeError, in the second case ahead of releaseId.
addDataDefinitions(h, DATA_ID, propNames) ==
  LET k == firstUnknown(propNames)
      n == IF k = 0 THEN Len(propNames) ELSE k - 1
      adds == [i \in 1..n |-> <<"addToDataDefinition", DATA_ID, propNames[i]>>]
  IN IF h = 0 /\ propNames # <<>>
     THEN [transport |-> <<>>, defs |-> {}, released |-> {},
           error |-> TypeError]
     ELSE IF k = 0
     THEN [transport |-> adds,
           defs |-> {<<DATA_ID, propNames[i], h>> : i \in 1..n},
           released |-> {},
           error |-> NoError]
     ELSE [transport |-> Append(adds, <<"clearDataDefinition", DATA_ID>>),
           defs |-> {},
           released |-> {DATA_ID},
           error |-> [kind |-> "Cannot get SimVar", prop |-> propNames[k]]]

\* get(...propNames), called by `owner`: the user, the run loop of
\* schedule or AirportHandler.getAllNearbyAirports.  The definitions are
\* added on this.handle as it is at the call, the listener is registered
\* on it and the request sent on it; when addDataDefinitions throws, get
\* throws and returns no promise.  A get without names made while
\* this.handle is undefined returns a promise that handle.on rejects.
doGet(names, owner) ==
  LET a == nextId(id, reserved)
      DATA_ID == a.ret
      REQUEST_ID == DATA_ID
      propNames == [i \in 1..Len(names) |-> replaceAll(names[i])]
      d == addDataDefinitions(handle, DATA_ID, propNames)
  IN /\ id' = a.id
     /\ allocated' = <<DATA_ID>>
     /\ released' = d.released
     /\ reserved' = IF d.released = {} THEN a.reserved
                    ELSE releaseId(DATA_ID, a.reserved)
     /\ lastError' = d.error
     /\ dataDefs' = {x \in dataDefs :
                        d.error = NoError \/ x[1] # DATA_ID \/ x[3] # handle}
                      \cup d.defs
     /\ IF d.error = NoError /\ handle = 0
        THEN /\ promises' =
                  Append(promises,
                         [DATA_ID |-> DATA_ID, propNames |-> propNames,
                          state |-> "rejected", settled |-> 0,
                          value |-> Undefined, owner |-> owner])
             /\ transport' = d.transport
             /\ UNCHANGED dataListeners
        ELSE IF d.error = NoError
        THEN /\ dataListeners' =
                  Append(dataListeners,
                         [handle |-> handle, ticket |-> Len(promises) + 1,
                          REQUEST_ID |-> REQUEST_ID, DATA_ID |-> DATA_ID])
             /\ promises' =
                  Append(promises,
                         [DATA_ID |-> DATA_ID, propNames |-> propNames,
                          state |-> "pending", settled |-> 0,
                          value |-> Undefined, owner |-> owner])
             /\ transport' =
                  Append(d.transport,
                         <<"requestDataOnSimObject", REQUEST_ID, DATA_ID>>)
        ELSE /\ transport' = d.transport
             /\ UNCHANGED <<dataListeners, promises>>

get(names) ==
  /\ doGet(names, "user")
  /\ calls' = calls + 1
  /\ handlerCalls' = <<>>
  /\ lastOp' = <<"get", names>>
  /\ UNCHANGED <<conn, airportVars, handleVars>>
  /\ UNCHANGED <<connected, facilityIds, eventListeners, subscribeCalls,
                 timers, sched>>

\* handleDataRequest without its comparison of the request id
matchesAny(listener, requestID) == TRUE

\* handleDataRequest: "if (requestID === REQUEST_ID)"
matches(listener, requestID) == listener.REQUEST_ID = requestID

\* a handleDataRequest registered on handle h that acts on a message
\* with requestID
hears(l, h, requestID) == l.handle = h /\ matches(l, requestID)

\* handle.off("simObjectData", handleDataRequest) in the listeners that ran
offDataListeners(listeners, h, requestID) ==
  SelectSeq(listeners, LAMBDA l : ~hears(l, h, requestID))

\* a "simObjectData" message on handle h: every handleDataRequest
\* registered on that handle sees it.  data stands for what the
\* definitions of the request read from the message's buffer, the value
\* the promise is resolved with.  What awaits the promise goes on later,
\* in a step of its own.
simObjectData(h, requestID, data) ==
  LET hit == SelectSeq(dataListeners, LAMBDA l : hears(l, h, requestID))
      tickets == {hit[i].ticket : i \in 1..Len(hit)}
      ids == {hit[i].DATA_ID : i \in 1..Len(hit)}
  IN /\ h \in onEvent
     /\ dataListeners' = offDataListeners(dataListeners, h, requestID)
     /\ transport' = [i \in 1..Len(hit) |->
                        <<"clearDataDefinition", hit[i].DATA_ID>>]
     /\ dataDefs' = {x \in dataDefs : x[1] \notin ids \/ x[3] # h}
     /\ promises' = [t \in 1..Len(promises) |->
                       IF t \in tickets
                       THEN [promises[t] EXCEPT !.state = "resolved",
                                                !.settled = @ + 1,
                                                !.value = data]
                       ELSE promises[t]]
     /\ reserved' = reserved \ ids
     /\ released' = ids
     /\ handlerCalls' = <<>>
     /\ allocated' = <<>>
     /\ lastError' = NoError
     /\ lastOp' = <<"simObjectData", requestID, data, h>>
     /\ UNCHANGED <<conn, airportVars, handleVars>>
     /\ UNCHANGED <<id, connected, facilityIds, eventListeners, subscribeCalls,
                    timers, sched, calls>>

\* def.write(buffer, value) throws "SimVar ... is not settable" for a
\* read-only simvar
settable(propName) == propName # ReadOnlySpace

\* set(propName, value): for an unknown name it releases its id and
\* throws; for a read-only one def.write throws, and while this.handle is
\* undefined handle.addToDataDefinition throws a TypeError, in both cases
\* with the id taken, nothing written and no timer set; otherwise it
\* writes on this.handle and sets the timer that holds that handle.
set(name) ==
  LET propName == replaceAll(name)
      a == nextId(id, reserved)
      DATA_ID == a.ret
  IN /\ id' = a.id
     /\ allocated' = <<DATA_ID>>
     /\ IF unknown(propName)
        THEN /\ reserved' = releaseId(DATA_ID, a.reserved)
             /\ released' = {DATA_ID}
             /\ lastError' = [kind |-> "Cannot set SimVar", prop |-> propName]
             /\ transport' = <<>>
             /\ UNCHANGED <<dataDefs, timers>>
        ELSE IF ~settable(propName) \/ handle = 0
        THEN /\ reserved' = a.reserved
             /\ released' = {}
             /\ lastError' = IF ~settable(propName)
                             THEN [kind |-> "not settable", prop |-> propName]
                             ELSE TypeError
             /\ transport' = <<>>
             /\ UNCHANGED <<dataDefs, timers>>
        ELSE /\ reserved' = a.reserved
             /\ released' = {}
             /\ lastError' = NoError
             /\ transport' = <<<<"addToDataDefinition", DATA_ID, propName>>,
                               <<"setDataOnSimObject", DATA_ID>>>>
             /\ dataDefs' = dataDefs \cup {<<DATA_ID, propName, handle>>}
             /\ timers' = Append(timers, [DATA_ID |-> DATA_ID,
                                          handle |-> handle])
     /\ calls' = calls + 1
     /\ handlerCalls' = <<>>
     /\ lastOp' = <<"set", name>>
     /\ UNCHANGED <<conn, airportVars, handleVars>>
     /\ UNCHANGED <<connected, facilityIds, eventListeners, subscribeCalls,
                    dataListeners, promises, sched>>

\* the n-th value from c0 on that is not reserved: what the n-th of n
\* consecutive nextId calls returns when each returned id is released again
\* and the counter does not wrap in between
nthFree(c0, n, res) ==
  CHOOSE v \in (c0 + n - 1)..(c0 + n - 1 + Cardinality(res)) :
    /\ v \notin res
    /\ (v - c0 + 1) - Cardinality({x \in res : c0 <= x /\ x <= v}) = n

\* the number of such calls from counter c0 until the counter exceeds the
\* ceiling: one per free value below the ceiling, and one more for the
\* first free value from the ceiling on
lapCalls(c0, res) ==
  (Ceiling - c0) - Cardinality({x \in res : c0 <= x /\ x < Ceiling}) + 1

\* the counter after n consecutive set calls with an unknown name: each
\* takes the next id and releases it again.  Computed lap by lap, a lap
\* ending where nextId resets the counter.
RECURSIVE failingSets(_, _, _)
failingSets(n, c, res) ==
  LET c0 == IF c > Ceiling THEN 0 ELSE c
      k == lapCalls(c0, res)
  IN IF n = 0 THEN c
     ELSE IF n <= k THEN nthFree(c0, n, res) + 1
     ELSE failingSets(n - k, nthFree(c0, k, res) + 1, res)

\* a caller's loop of n set calls with an unknown name, each caught
setUnknownRun(n) ==
  /\ id' = failingSets(n, id, reserved)
  /\ allocated' = <<nextId(failingSets(n - 1, id, reserved), reserved).ret>>
  /\ released' = {allocated'[1]}
  /\ lastError' = [kind |-> "Cannot set SimVar", prop |-> UnknownSpace]
  /\ calls' = calls + 1
  /\ transport' = <<>> /\ handlerCalls' = <<>>
  /\ lastOp' = <<"setUnknownRun", n>>
  /\ UNCHANGED <<conn, airportVars, handleVars>>
  /\ UNCHANGED <<reserved, connected, facilityIds, eventListeners,
                 subscribeCalls, dataDefs, dataListeners, promises, timers,
                 sched>>

\* the callback of set's setTimeout(..., 500); equal delays fire in the
\* order they were set.  It clears the definitions of its id on the
\* handle set held.
setTimeout ==
  /\ timers # <<>>
  /\ LET DATA_ID == Head(timers).DATA_ID
     IN /\ reserved' = releaseId(DATA_ID, reserved)
        /\ released' = {DATA_ID}
        /\ dataDefs' = {x \in dataDefs :
                          x[1] # DATA_ID \/ x[3] # Head(timers).handle}
        /\ transport' = <<<<"clearDataDefinition", DATA_ID>>>>
        /\ lastOp' = <<"setTimeout", DATA_ID>>
  /\ timers' = Tail(timers)
  /\ handlerCalls' = <<>> /\ allocated' = <<>> /\ lastError' = NoError
  /\ UNCHANGED <<conn, airportVars, handleVars>>
  /\ UNCHANGED <<id, connected, facilityIds, eventListeners, subscribeCalls,
                 dataListeners, promises, sched, calls>>

\* trigger(triggerName, value); while this.handle is undefined
\* handle.mapClientEventToSimEvent throws a TypeError, the id taken
trigger ==
  /\ LET a == nextId(id, reserved)
     IN /\ id' = a.id
        /\ reserved' = a.reserved
        /\ allocated' = <<a.ret>>
        /\ transport' = IF handle = 0 THEN <<>>
                        ELSE <<<<"mapClientEventToSimEvent", a.ret>>,
                               <<"transmitClientEvent", a.ret>>>>
  /\ lastError' = IF handle = 0 THEN TypeError ELSE NoError
  /\ calls' = calls + 1
  /\ handlerCalls' = <<>> /\ released' = {}
  /\ lastOp' = <<"trigger">>
  /\ UNCHANGED <<conn, airportVars, handleVars>>
  /\ UNCHANGED <<connected, facilityIds, eventListeners, subscribeCalls,
                 dataDefs, dataListeners, promises, timers, sched>>

(***************************************************************************)
(* schedule                                                                *)
(***************************************************************************)

\* schedule(handler, interval, ...propNames): running = true; run().
\* When run's get throws, the promise of run is rejected, no timer is
\* set, and schedule returns its stop function all the same.
schedule ==
  /\ sched.pc = "none"
  /\ doGet(<<KnownUnderscore>>, "schedule")
  /\ sched' = IF handle = 0
              THEN [pc |-> "ended", running |-> TRUE, ticket |-> 0]
              ELSE [pc |-> "await", running |-> TRUE,
                    ticket |-> Len(promises) + 1]
  /\ calls' = calls + 1
  /\ handlerCalls' = <<>>
  /\ lastOp' = <<"schedule">>
  /\ UNCHANGED <<conn, airportVars, handleVars>>
  /\ UNCHANGED <<connected, facilityIds, eventListeners, subscribeCalls,
                 timers>>

\* the function schedule returns: running = false
stop ==
  /\ sched.pc # "none"
  /\ sched.running
  /\ sched' = [sched EXCEPT !.running = FALSE]
  /\ calls' = calls + 1
  /\ transport' = <<>> /\ handlerCalls' = <<>> /\ allocated' = <<>>
  /\ released' = {} /\ lastError' = NoError
  /\ lastOp' = <<"stop">>
  /\ UNCHANGED <<conn, airportVars, handleVars>>
  /\ UNCHANGED <<id, reserved, connected, facilityIds, eventListeners,
                 subscribeCalls, dataDefs, dataListeners, promises, timers>>

\* run, resumed after "await this.get(...propNames)" once the promise is
\* resolved: handler(result), then "if (running) setTimeout(run, interval)"
runResumes ==
  /\ sched.pc = "await"
  /\ promises[sched.ticket].state = "resolved"
  /\ handlerCalls' = <<<<"scheduled", sched.ticket>>>>
  /\ sched' = [sched EXCEPT !.pc = IF sched.running THEN "timer" ELSE "ended"]
  /\ transport' = <<>> /\ allocated' = <<>> /\ released' = {}
  /\ lastError' = NoError
  /\ lastOp' = <<"runResumes">>
  /\ UNCHANGED <<conn, airportVars, handleVars>>
  /\ UNCHANGED <<id, reserved, connected, facilityIds, eventListeners,
                 subscribeCalls, dataDefs, dataListeners, promises, timers,
                 calls>>

\* the callback of setTimeout(run, interval): run starts its next get
run ==
  /\ sched.pc = "timer"
  /\ doGet(<<KnownUnderscore>>, "schedule")
  /\ sched' = [sched EXCEPT !.pc = "await", !.ticket = Len(promises) + 1]
  /\ handlerCalls' = <<>>
  /\ lastOp' = <<"run">>
  /\ UNCHANGED <<conn, airportVars, handleVars>>
  /\ UNCHANGED <<connected, facilityIds, eventListeners, subscribeCalls,
                 timers, calls>>

(***************************************************************************)
(* AirportHandler: its start-up                                            *)
(***************************************************************************)

\* the cache files AirportHandler.init may find
InitFiles ==
  {[kind |-> k, airports |-> <<>>, writable |-> w] :
     k \in {"absent"} \cup FailingKinds, w \in BOOLEAN}
    \cup {[kind |-> "array", airports |-> c, writable |-> TRUE] :
            c \in {<<>>, <<AirportA>>, <<AirportA, AirportB>>}}

\* the airport module's own nextId: the value returned and the counter
\* afterwards
handlerNextId(c) ==
  LET c0 == IF c > HandlerCeiling THEN StartId ELSE c
  IN [ret |-> c0, id |-> c0 + 1]

\* getAirportHandler(api, handle), called with api.handle once the API
\* has one: two ids
\* from api.nextId, a listener on "airportList" that calls the handlers
\* registered under the names of the two special events, the facility
\* subscription, and new AirportHandler(api, finished), whose init runs up
\* to "await open(...)"
getAirportHandler ==
  /\ handle # 0
  /\ pc = "new"
  /\ pc' = "open"
  /\ LET a == nextId(id, reserved)
         b == nextId(a.id, a.reserved)
         IN_RANGE == a.ret
         OUT_OF_RANGE == b.ret
     IN /\ id' = b.id
        /\ reserved' = b.reserved
        /\ allocated' = <<IN_RANGE, OUT_OF_RANGE>>
        /\ onAirportList' =
             Append(onAirportList,
                    Listener(handle, "byName", <<IN_RANGE, OUT_OF_RANGE>>,
                             0))
        /\ transport' =
             <<<<"subscribeToFacilitiesEx1", IN_RANGE, OUT_OF_RANGE>>>>
  /\ handlerCalls' = <<>> /\ released' = {} /\ lastError' = NoError
  /\ lastOp' = <<"getAirportHandler">>
  /\ UNCHANGED <<connected, handle, onEvent, specials, facilityIds,
                 eventListeners,
                 subscribeCalls, dataDefs, dataListeners, promises, timers,
                 sched>>
  /\ UNCHANGED <<calls, conn, airportHandle, handlerId, requestId, list,
                 listening, file, airports, toProcess, detail,
                 detailListeners, initEffects, query>>

\* open yields the dedicated handle: init registers its airportList
\* handler and requests the facility list
initOpened ==
  /\ pc = "open"
  /\ pc' = "list"
  /\ airportHandle' = "open"
  /\ LET a == handlerNextId(handlerId)
     IN /\ requestId' = a.ret
        /\ handlerId' = a.id
  /\ listening' = TRUE
  /\ noApiEffects
  /\ lastOp' = <<"initOpened">>
  /\ UNCHANGED <<apiVars, calls, conn, list, file, airports, toProcess,
                 detail, detailListeners, initEffects, query>>

\* open rejects: init's promise is rejected at its first await
initOpenFails ==
  /\ pc = "open"
  /\ pc' = "openFailed"
  /\ noApiEffects
  /\ lastOp' = <<"initOpenFails">>
  /\ UNCHANGED <<apiVars, calls, conn, airportHandle, handlerId, requestId,
                 list, listening, file, airports, toProcess, detail,
                 detailListeners, initEffects, query>>

\* the first try block: fs.readFileSync; undefined when it throws
readFileSync(f) ==
  IF f.kind = "unreadable" THEN UndefinedValue
  ELSE [t |-> "bytes", file |-> f]

\* the second try block: zlib.gunzipSync(zipped); undefined when it throws,
\* as it does for an undefined argument
gunzipSync(zipped) ==
  IF zipped.t = "undefined" \/ zipped.file.kind = "notGzip"
  THEN UndefinedValue
  ELSE [t |-> "text", file |-> zipped.file]

\* JSON.parse failing on every text
parseThrows(json) == [t |-> "SyntaxError"]

\* JSON.parse(json): it throws a SyntaxError for an undefined argument and
\* for a text that is no JSON
parse(json) ==
  IF json.t = "undefined" \/ json.file.kind = "notJson"
  THEN [t |-> "SyntaxError"]
  ELSE IF json.file.kind = "null" THEN NullValue
  ELSE ListValue(json.file.airports)

\* the facility-detail request processAirports issues for an entry
getAirportDetails(entry, c) ==
  [requestID |-> handlerNextId(c).ret,
   airportData |-> [icao |-> entry.icao, runways |-> <<>>]]

\* the end of init after the rebuild: handle.close(), fs.writeFileSync of
\* the zipped JSON text, finished()
closeWriteFinish(effects) ==
  [effects EXCEPT !.closes = @ + 1, !.writes = @ + 1, !.finished = @ + 1,
                  !.log = @ \o <<"close", "write", "finished">>]

\* the end of init when fs.writeFileSync throws: handle.close() was
\* called, nothing is written and finished is not reached
closeWriteThrows(effects) ==
  [effects EXCEPT !.closes = @ + 1, !.log = @ \o <<"close">>]

\* fs.writeFileSync(AIRPORT_DB_LOCATION, zipped) of the airports given, on
\* the file f: the file afterwards, f itself when the call throws
writeFileSync(f, all) ==
  IF f.writable
  THEN [kind |-> "array", airports |-> all, writable |-> TRUE]
  ELSE f

\* processAirports(rest, resolve), with the airports fetched so far, on a
\* handle in state h that has the detail listeners given.  With nothing
\* left it calls resolve, whose promise init awaits.  Otherwise it shifts
\* the first entry and getAirportDetails registers its two listeners and
\* requests the entry's details.
processAirports(rest, all, effects, h, listeners) ==
  IF rest = <<>>
  THEN /\ airports' = ListValue(all)
       /\ airportHandle' = h
       /\ initEffects' = effects
       /\ pc' = "processed"
       /\ detail' = NoDetail
       /\ toProcess' = <<>>
       /\ detailListeners' = listeners
       /\ UNCHANGED <<handlerId, file>>
  ELSE /\ airports' = ListValue(all)
       /\ airportHandle' = h
       /\ detail' = getAirportDetails(Head(rest), handlerId)
       /\ detailListeners' =
            Append(listeners, getAirportDetails(Head(rest), handlerId).requestID)
       /\ handlerId' = handlerNextId(handlerId).id
       /\ toProcess' = Tail(rest)
       /\ initEffects' = [effects EXCEPT !.requests = @ + 1]
       /\ pc' = "details"
       /\ UNCHANGED file

\* init, resumed after it awaited processAirports: handle.close(), the
\* cache file written, finished(); when the write throws, init's promise
\* is rejected there
initEnds ==
  /\ pc = "processed"
  /\ airportHandle' = "closed"
  /\ file' = writeFileSync(file, airports.v)
  /\ initEffects' = IF file.writable THEN closeWriteFinish(initEffects)
                    ELSE closeWriteThrows(initEffects)
  /\ pc' = IF file.writable THEN "done" ELSE "rejected"
  /\ noApiEffects
  /\ lastOp' = <<"initEnds">>
  /\ UNCHANGED <<apiVars, calls, conn, handlerId, requestId, list, listening,
                 airports, toProcess, detail, detailListeners, query>>

\* the page that ends the list, compared with outOf instead of outOf - 1
lastPageAtOutOf(entryNumber, outOf) == entryNumber >= outOf

\* init's airportList handler: "if (entryNumber >= outOf - 1)"
lastPage(entryNumber, outOf) == entryNumber >= outOf - 1

\* init from "const airportCount = list.length" on, L being the list: the
\* cache file is loaded and used, or the rebuild begins.  When the
\* file holds the JSON value null, this.airports.length throws after
\* handle.close(), the catch block logs it and the rebuild goes on with
\* the closed handle; a call on a closed handle either throws, which
\* rejects init's promise, or is dropped by the transport.
afterList(L, effects) ==
  LET p == parse(gunzipSync(readFileSync(file)))
      airportCount == Len(L)
  IN IF file.kind # "absent" /\ p.t = "list"
     THEN /\ airports' = p
          /\ airportHandle' = "closed"
          /\ initEffects' =
               [effects EXCEPT
                  !.closes = @ + 1,
                  !.warnings = @ + (IF Len(p.v) # airportCount THEN 1 ELSE 0),
                  !.finished = @ + 1,
                  !.log = @ \o <<"close">>
                            \o (IF Len(p.v) # airportCount THEN <<"warn">>
                                ELSE <<>>)
                            \o <<"finished">>]
          /\ pc' = "done"
          /\ UNCHANGED <<file, toProcess, detail, detailListeners, handlerId>>
     ELSE IF file.kind # "absent" /\ p.t = "null"
     THEN \/ /\ pc' = "rejected"
             /\ airports' = NullValue
             /\ airportHandle' = "closed"
             /\ initEffects' = [effects EXCEPT !.closes = @ + 1,
                                               !.log = @ \o <<"close">>]
             /\ UNCHANGED <<file, toProcess, detail, detailListeners,
                            handlerId>>
          \/ processAirports(L, <<>>,
                             [effects EXCEPT !.closes = @ + 1,
                                             !.detailFields = @ + 1,
                                             !.log = @ \o <<"close">>],
                             "closed", detailListeners)
     ELSE processAirports(L, <<>>, [effects EXCEPT !.detailFields = @ + 1],
                          "open", detailListeners)

\* an "airportList" message on the dedicated handle: init's handler, if it
\* is still registered, pushes the page's airports and, on the last page,
\* unregisters itself and resolves the promise init awaits
airportListPage(requestID, entries, entryNumber, outOf) ==
  /\ airportHandle = "open"
  /\ LET hit == listening /\ requestID = requestId
     IN /\ list' = IF hit THEN list \o entries ELSE list
        /\ IF hit /\ lastPage(entryNumber, outOf)
           THEN /\ listening' = FALSE
                /\ pc' = "listed"
           ELSE UNCHANGED <<listening, pc>>
  /\ initEffects' = [initEffects EXCEPT !.pages = @ + 1]
  /\ noApiEffects
  /\ lastOp' = <<"airportListPage", requestID, entries, entryNumber, outOf>>
  /\ UNCHANGED <<apiVars, calls, conn, requestId, airportHandle, file,
                 airports, toProcess, detail, detailListeners, handlerId,
                 query>>

\* init, resumed after it awaited the facility list
initResumes ==
  /\ pc = "listed"
  /\ afterList(list, initEffects)
  /\ noApiEffects
  /\ lastOp' = <<"initResumes">>
  /\ UNCHANGED <<apiVars, calls, conn, requestId, list, listening, query>>

(***************************************************************************)
(* AirportHandler: the facility data of a rebuild.  A data buffer is the   *)
(* record of the values its reads return, in reading order.  Altitudes     *)
(* are whole metres in the buffer and 1e-5 feet once converted; angles in  *)
(* radians are counted in units of pi/18.                                  *)
(***************************************************************************)

\* a JavaScript array literal: its elements under the indices from 0 on
arrayOf(q) == [i \in 0..(Len(q) - 1) |-> q[i + 1]]

RUNWAY_SURFACES ==
  arrayOf(<<"concrete", "grass", "water fsx", "grass bumpy", "asphalt",
            "short grass", "long grass", "hard turf", "snow", "ice", "urban",
            "forest", "dirt", "coral", "gravel", "oil treated", "steel mats",
            "bituminus", "brick", "macadam", "planks", "sand", "shale",
            "tarmac", "wright flyer track", "ocean", "water", "pond", "lake",
            "river", "waste water", "paint">>)
    @@ (254 :> "unknown")

RUNWAY_NUMBER ==
  arrayOf(<<"none", "1", "2", "3", "4", "5", "6", "7", "8", "9", "10", "11",
            "12", "13", "14", "15", "16", "17", "18", "19", "20", "21", "22",
            "23", "24", "25", "26", "27", "28", "29", "30", "31", "32", "33",
            "34", "35", "36", "north", "northeast", "east", "southeast",
            "south", "southwest", "west", "northwest", "last">>)

RUNWAY_DESIGNATOR ==
  arrayOf(<<"none", "left", "right", "center", "water", "a", "b", "last">>)

ILS_TYPES ==
  (0 :> "none") @@ (65 :> "airport") @@ (86 :> "VOR") @@ (78 :> "NDB")
    @@ (87 :> "waypoint")

\* 3.28084, in 1e-5 feet per metre
FEET_PER_METERS == 328084

\* degrees(rad) == (rad / Math.PI) * 180, for rad in units of pi/18
degrees(rad) == rad * 10

\* the lookup reading the table from index 1 on
lookupFromOne(table, index) ==
  IF index - 1 \in DOMAIN table THEN StringValue(table[index - 1])
  ELSE UndefinedValue

\* TABLE[data.readInt32()]: the label under the index, undefined when the
\* table has nothing there
lookup(table, index) ==
  IF index \in DOMAIN table THEN StringValue(table[index])
  ELSE UndefinedValue

\* addAirportDetails(data, airportData): Object.assign of the header fields
addAirportDetails(data, airportData) ==
  [latitude |-> data.latitude,
   longitude |-> data.longitude,
   altitude |-> data.altitude * FEET_PER_METERS,
   declination |-> data.declination,
   name |-> data.name,
   name64 |-> data.name64,
   region |-> data.region,
   runwayCount |-> data.runwayCount] @@ airportData

\* the runway record addAirportRunway builds from a buffer
runway(data) ==
  [latitude |-> data.latitude,
   longitude |-> data.longitude,
   altitude |-> data.altitude * FEET_PER_METERS,
   heading |-> data.heading,
   length |-> data.length,
   width |-> data.width,
   patternAltitude |-> data.patternAltitude,
   slope |-> degrees(data.slope),
   slopeTrue |-> degrees(data.slopeTrue),
   surface |-> lookup(RUNWAY_SURFACES, data.surface),
   approach |->
     <<[designation |-> lookup(RUNWAY_DESIGNATOR, data.primary_designator),
        marking |-> lookup(RUNWAY_NUMBER, data.primary_number),
        ILS |-> [type |-> lookup(ILS_TYPES, data.primary_ils_type),
                 icao |-> data.primary_ils_icao,
                 region |-> data.primary_ils_region]],
       [designation |-> lookup(RUNWAY_DESIGNATOR, data.secondary_designator),
        marking |-> lookup(RUNWAY_NUMBER, data.secondary_number),
        ILS |-> [type |-> lookup(ILS_TYPES, data.secondary_ils_type),
                 icao |-> data.secondary_ils_icao,
                 region |-> data.secondary_ils_region]]>>]

\* addAirportRunway(data, airportData): airportData.runways.push({...})
addAirportRunway(data, airportData) ==
  [airportData EXCEPT !.runways = Append(@, runway(data))]

\* processData({ userRequestId: id, type, data }), a closure over airportData
processData(userRequestId, type, data, airportData) ==
  IF type = 0 THEN addAirportDetails(data, airportData)
  ELSE IF type = 1 THEN addAirportRunway(data, airportData)
  ELSE airportData

\* an airport header as the simulator sends it
HeaderData ==
  [latitude |-> 47, longitude |-> -122, altitude |-> 132, declination |-> 15,
   name |-> "Seattle-Tacoma", name64 |-> "Seattle-Tacoma Intl", region |-> "K1",
   runwayCount |-> 1]

\* a runway as the simulator sends it, with the six enum indices given
RunwayData(surface, pn, pd, pi, sn, sd, si) ==
  [latitude |-> 47, longitude |-> -122, altitude |-> 130, heading |-> 160,
   length |-> 3600, width |-> 45, patternAltitude |-> 300, slope |-> 1,
   slopeTrue |-> 2, surface |-> surface,
   primary_number |-> pn, primary_designator |-> pd, primary_ils_type |-> pi,
   primary_ils_icao |-> "ISEA", primary_ils_region |-> "K1",
   secondary_number |-> sn, secondary_designator |-> sd,
   secondary_ils_type |-> si,
   secondary_ils_icao |-> "ISZI", secondary_ils_region |-> "K1"]

\* the facilityData messages of a rebuild: a header, a runway, and a
\* message of another type (a taxiway, say)
FacilityMessages ==
  {[type |-> 0, data |-> HeaderData],
   [type |-> 1, data |-> RunwayData(4, 16, 1, 65, 34, 2, 0)],
   [type |-> 2, data |-> UndefinedValue]}

\* the enum indices a runway may carry: 32-bit integers around and inside
\* each table
SurfaceIndices == (-1..33) \cup (253..255)
NumberIndices == -1..47
DesignatorIndices == -1..9
IlsIndices == {-1, 0, 1, 64, 65, 66, 78, 79, 86, 87, 88}

\* runways for decoding: each index swept over its values, the others
\* taken from a table's two ends or from outside it
DecodeRunways ==
  {RunwayData(s, 45, 7, 87, 0, 0, 0) : s \in SurfaceIndices}
    \cup {RunwayData(254, n, 8, 1, m, 3, 65) :
            n \in NumberIndices, m \in {44, 45, 46}}
    \cup {RunwayData(32, 46, d, 86, 36, e, 78) :
            d \in DesignatorIndices, e \in {-1, 7}}
    \cup {RunwayData(0, 0, 0, i, 1, 1, j) : i \in IlsIndices, j \in IlsIndices}

\* a "facilityData" message on the dedicated handle: processData of the
\* outstanding request, while it is registered, takes it whatever
\* userRequestId it carries
facilityData(userRequestId, type, data) ==
  /\ airportHandle = "open"
  /\ IF detailListeners # <<>>
     THEN detail' = [detail EXCEPT
                       !.airportData =
                          processData(userRequestId, type, data, @)]
     ELSE UNCHANGED detail
  /\ initEffects' = [initEffects EXCEPT !.data = @ + 1]
  /\ noApiEffects
  /\ lastOp' = <<"facilityData", userRequestId, type, data>>
  /\ UNCHANGED <<apiVars, calls, conn, pc, airportHandle, handlerId,
                 requestId, list, listening, file, airports, toProcess,
                 detailListeners, query>>

\* processDataEnd: handle.off("facilityData", processData) and
\* handle.off("facilityDataEnd", processDataEnd), for the pair that
\* getAirportDetails registered for requestID
offDetailListeners(listeners, requestID) ==
  SelectSeq(listeners, LAMBDA r : r # requestID)

\* a "facilityDataEnd" message on the dedicated handle: processDataEnd
\* of the outstanding request, while it is registered, removes the two
\* listeners and resolves the promise processAirports awaits, whatever
\* userRequestId the message carries
facilityDataEnd(userRequestId) ==
  /\ airportHandle = "open"
  /\ IF detailListeners # <<>>
     THEN /\ detailListeners' =
               offDetailListeners(detailListeners, detail.requestID)
          /\ initEffects' = [initEffects EXCEPT !.resolved = @ + 1]
          /\ pc' = "resolved"
     ELSE UNCHANGED <<detailListeners, initEffects, pc>>
  /\ noApiEffects
  /\ lastOp' = <<"facilityDataEnd", userRequestId>>
  /\ UNCHANGED <<apiVars, calls, conn, airportHandle, handlerId, requestId,
                 list, listening, file, airports, toProcess, detail, query>>

\* processAirports, resumed after it awaited getAirportDetails:
\* "this.airports.push(details); processAirports(list, resolve)"
processAirportsResumes ==
  /\ pc = "resolved"
  /\ processAirports(toProcess, Append(airports.v, detail.airportData),
                     initEffects, airportHandle, detailListeners)
  /\ noApiEffects
  /\ lastOp' = <<"processAirportsResumes">>
  /\ UNCHANGED <<apiVars, calls, conn, requestId, list, listening, query>>

(***************************************************************************)
(* AirportHandler: its queries.  Variable names are sequences of           *)
(* characters.  Lengths are whole metres, so that 1.852 km is 1852.        *)
(***************************************************************************)

\* "const KM_PER_NM = 1.852", in metres
KM_PER_NM == 1852

\* getAllNearbyAirports: "getVarArg(varName) ?? 200"
DefaultRadius == 200

\* the variable names handed to the handler and to handler.supports
VarNames ==
  {ALL_AIRPORTS,
   <<"A", "L", "L", "_", "A", "I", "R", "P", "O", "R", "T", "S">>,
   ALL_AIRPORTS \o <<":", "5">>,
   NEARBY_AIRPORTS,
   NEARBY_AIRPORTS \o <<":", "1", "5">>,
   NEARBY_AIRPORTS \o <<":", "\r", "5", "U+00A0">>,
   NEARBY_AIRPORTS \o <<":", "1", "e", "2">>,
   NEARBY_AIRPORTS \o <<":", "1", "e", "4", "0", "0">>,
   NEARBY_AIRPORTS \o <<":", "0", "x", "1", "0">>,
   NEARBY_AIRPORTS \o <<":", "I", "n", "f", "i", "n", "i", "t", "y">>,
   NEARBY_AIRPORTS \o <<":">>,
   NEARBY_AIRPORTS \o <<":">> \o KLAX,
   NEARBY_AIRPORTS \o <<"S">>,
   AIRPORT,
   AIRPORT \o KSEA,
   AIRPORT \o KLAX,
   AIRPORT \o <<"k", "s", "e", "a">>,
   <<"A", "I", "R", "P", "O", "R", "T">>,
   <<>>}

\* the cache files whose airports are queried
RECURSIVE SeqsUpTo(_, _)
SeqsUpTo(S, n) ==
  IF n = 0 THEN {<<>>}
  ELSE LET shorter == SeqsUpTo(S, n - 1)
       IN shorter \cup {Append(q, x) : q \in shorter, x \in S}
QueryFiles ==
  {[kind |-> "array", airports |-> c, writable |-> TRUE] :
     c \in SeqsUpTo(AirportPool, MaxAirports)}

\* startsWith demanding the whole string to be the prefix
startsWithWhole(str, prefix) == str = prefix

\* str.startsWith(prefix)
startsWith(str, prefix) ==
  Len(str) >= Len(prefix) /\ SubSeq(str, 1, Len(prefix)) = prefix

\* str.includes(ch)
includes(str, ch) == \E i \in 1..Len(str) : str[i] = ch

\* str.indexOf(ch), counted from 0, for a string that includes ch
indexOf(str, ch) ==
  (CHOOSE i \in 1..Len(str) :
     str[i] = ch /\ \A j \in 1..(i - 1) : str[j] # ch) - 1

\* str.substring(from), from counted from 0
substring(str, from) == SubSeq(str, from + 1, Len(str))

\* getVarArg: the text after the first colon, undefined without a colon
getVarArg(varName) ==
  IF ~includes(varName, ":") THEN UndefinedValue
  ELSE StringValue(substring(varName, indexOf(varName, ":") + 1))

Digits == <<"0", "1", "2", "3", "4", "5", "6", "7", "8", "9">>
digitValue(ch) == (CHOOSE k \in 1..Len(Digits) : Digits[k] = ch) - 1

\* the value of a text of decimal digits
RECURSIVE decimal(_)
decimal(str) ==
  IF str = <<>> THEN 0
  ELSE 10 * decimal(SubSeq(str, 1, Len(str) - 1)) + digitValue(str[Len(str)])

\* the digits of the bases up to 16, in both cases
LowerDigits == Digits \o <<"a", "b", "c", "d", "e", "f">>
UpperDigits == Digits \o <<"A", "B", "C", "D", "E", "F">>

\* the value of a character as a digit, 16 for a character that is none
digitOf(ch) ==
  IF \E k \in 1..16 : LowerDigits[k] = ch \/ UpperDigits[k] = ch
  THEN (CHOOSE k \in 1..16 : LowerDigits[k] = ch \/ UpperDigits[k] = ch) - 1
  ELSE 16

\* a text of digits of the base
allDigits(str, base) == \A i \in 1..Len(str) : digitOf(str[i]) < base

\* the value of a text of digits of the base
RECURSIVE numeral(_, _)
numeral(str, base) ==
  IF str = <<>> THEN 0
  ELSE base * numeral(SubSeq(str, 1, Len(str) - 1), base)
         + digitOf(str[Len(str)])

\* white space and line terminators, as the conversion of a text to a
\* number strips them: tab, line feed, vertical tab, form feed, carriage
\* return, space, no-break space, the byte order mark, the other space
\* separators, line separator and paragraph separator.  A character that
\* cannot be written in a string here is written as U+ and its code point.
WhiteSpace ==
  {"\t", "\n", "U+000B", "\f", "\r", " ", "U+00A0", "U+FEFF", "U+1680",
   "U+2000", "U+2001", "U+2002", "U+2003", "U+2004", "U+2005", "U+2006",
   "U+2007", "U+2008", "U+2009", "U+200A", "U+2028", "U+2029", "U+202F",
   "U+205F", "U+3000"}

RECURSIVE trimStart(_)
trimStart(str) ==
  IF str # <<>> /\ Head(str) \in WhiteSpace THEN trimStart(Tail(str)) ELSE str

RECURSIVE trimEnd(_)
trimEnd(str) ==
  IF str # <<>> /\ str[Len(str)] \in WhiteSpace
  THEN trimEnd(SubSeq(str, 1, Len(str) - 1))
  ELSE str

\* the place of the first character of str that is one of chs, 0 if none is
firstOf(str, chs) ==
  IF \E i \in 1..Len(str) : str[i] \in chs
  THEN CHOOSE i \in 1..Len(str) :
         str[i] \in chs /\ \A j \in 1..(i - 1) : str[j] \notin chs
  ELSE 0

\* the text before place x of str, all of it when x = 0
textBefore(str, x) == IF x = 0 THEN str ELSE SubSeq(str, 1, x - 1)

\* the text behind place x of str, none when x = 0
textBehind(str, x) == IF x = 0 THEN <<>> ELSE SubSeq(str, x + 1, Len(str))

\* digits, a point and digits, with a digit on one side at least
isMantissa(str) ==
  LET dot == firstOf(str, {"."})
  IN /\ allDigits(textBefore(str, dot), 10)
     /\ allDigits(textBehind(str, dot), 10)
     /\ Len(textBefore(str, dot)) + Len(textBehind(str, dot)) >= 1

\* digits with a sign or without
isExponent(str) ==
  /\ str # <<>>
  /\ IF str[1] \in {"+", "-"}
     THEN Tail(str) # <<>> /\ allDigits(Tail(str), 10)
     ELSE allDigits(str, 10)

exponentValue(str) ==
  IF str[1] = "-" THEN 0 - decimal(Tail(str))
  ELSE IF str[1] = "+" THEN decimal(Tail(str))
  ELSE decimal(str)

RECURSIVE pow10(_)
pow10(n) == IF n = 0 THEN 1 ELSE 10 * pow10(n - 1)

\* the number of decimal digits of a natural number, none for 0
RECURSIVE digitCount(_)
digitCount(n) == IF n = 0 THEN 0 ELSE 1 + digitCount(n \div 10)

\* |v|
abs(v) == IF v < 0 THEN 0 - v ELSE v

\* v * 10^e lies beyond the largest double: it is at least
\* 2^1024 - 2^970 = 1.797693134862315807...e308, from where on a value
\* rounds to Infinity
overflows(v, e) ==
  LET d == digitCount(abs(v))
  IN /\ v # 0
     /\ \/ d + e > 309
        \/ /\ d + e = 309
           /\ IF d = 10 THEN abs(v) > 1797693134
              ELSE abs(v) * pow10(9 - d) > 179769313

\* v * 10^e lies below the smallest double: it is at most
\* 2^-1075 = 2.4703282292062327...e-324, up to where a value rounds to 0
underflows(v, e) ==
  LET d == digitCount(abs(v))
  IN /\ v # 0
     /\ \/ d + e < 0 - 323
        \/ /\ d + e = 0 - 323
           /\ d = 10 \/ abs(v) * pow10(9 - d) <= 247032822

\* the double a number becomes: Infinity beyond the largest one, 0 below
\* the smallest one; a number in between is kept as it is written
double(n) ==
  IF n.t # "number" THEN n
  ELSE IF overflows(n.v, n.e) THEN InfinityValue(IF n.v < 0 THEN 0 - 1 ELSE 1)
  ELSE IF underflows(n.v, n.e) THEN NumberValue(0)
  ELSE n

\* the number a mantissa stands for, times 10^power
mantissaValue(str, power) ==
  LET dot == firstOf(str, {"."})
  IN Number(decimal(textBefore(str, dot) \o textBehind(str, dot)),
            power - Len(textBehind(str, dot)))

\* the number an unsigned decimal literal stands for: a mantissa and, it
\* may be, an exponent; NaN for any other text
unsignedDecimal(str) ==
  LET x == firstOf(str, {"e", "E"})
  IN IF /\ isMantissa(textBefore(str, x))
        /\ x = 0 \/ isExponent(textBehind(str, x))
     THEN double(mantissaValue(textBefore(str, x),
                               IF x = 0 THEN 0
                               ELSE exponentValue(textBehind(str, x))))
     ELSE NaN

\* Infinity, or an unsigned decimal literal
unsignedLiteral(str) ==
  IF str = <<"I", "n", "f", "i", "n", "i", "t", "y">> THEN InfinityValue(1)
  ELSE unsignedDecimal(str)

\* -n
negate(n) ==
  IF n.t = "number" THEN Number(0 - n.v, n.e)
  ELSE IF n.t = "Infinity" THEN InfinityValue(0 - n.sign)
  ELSE n

\* the base a prefix 0x, 0b or 0o announces, 10 without one
baseOf(str) ==
  IF Len(str) < 2 \/ str[1] # "0" THEN 10
  ELSE IF str[2] \in {"x", "X"} THEN 16
  ELSE IF str[2] \in {"b", "B"} THEN 2
  ELSE IF str[2] \in {"o", "O"} THEN 8
  ELSE 10

\* the number a text with a base prefix stands for
prefixed(str, base) ==
  IF Len(str) > 2 /\ allDigits(SubSeq(str, 3, Len(str)), base)
  THEN NumberValue(numeral(SubSeq(str, 3, Len(str)), base))
  ELSE NaN

\* the number a text without white space around it stands for: the empty
\* text is 0; a text with a base prefix is the value of its digits;
\* Infinity and a decimal literal may carry a sign; any other text is NaN
StringToNumber(str) ==
  IF str = <<>> THEN NumberValue(0)
  ELSE IF baseOf(str) # 10 THEN prefixed(str, baseOf(str))
  ELSE IF str[1] = "-" THEN negate(unsignedLiteral(Tail(str)))
  ELSE IF str[1] = "+" THEN unsignedLiteral(Tail(str))
  ELSE unsignedLiteral(str)

\* the number a value becomes in "distanceNM * KM_PER_NM": a number
\* itself, a text what JavaScript reads it as, the white space around it
\* dropped
toNumber(val) ==
  IF val.t # "string" THEN val
  ELSE StringToNumber(trimEnd(trimStart(val.v)))

\* n * KM_PER_NM, in metres; the product in kilometres is a double
times(n) ==
  LET km == double(Number(n.v * KM_PER_NM, n.e - 3))
  IN IF km.t = "number" THEN Number(km.v, km.e + 3) ELSE km

\* getAllNearbyAirports: "const KM = distanceNM * KM_PER_NM", with
\* distanceNM = getVarArg(varName) ?? 200
radiusKM(varName) ==
  LET arg == getVarArg(varName)
      distanceNM == IF arg.t = "undefined" THEN NumberValue(DefaultRadius)
                    ELSE arg
      n == toNumber(distanceNM)
  IN IF n.t = "number" THEN times(n) ELSE n

\* getDistanceBetweenPoints, the great-circle distance, for the points
\* of the model: they lie on one meridian, where a minute of latitude is
\* one nautical mile
dist(lat, long, alat, along) ==
  KM_PER_NM * (IF alat >= lat THEN alat - lat ELSE lat - alat)

\* the cached airport has a latitude and a longitude
positioned(airport) == {"latitude", "longitude"} \subseteq DOMAIN airport

\* getAllNearbyAirports: "const d = dist(lat, long, alat, along)" with
\* alat = radians(airport.latitude), along = radians(airport.longitude):
\* radians of a field the record lacks is NaN, and so is the distance
distance(lat, long, airport) ==
  IF positioned(airport)
  THEN NumberValue(dist(lat, long, airport.latitude, airport.longitude))
  ELSE NaN

\* d < v * 10^e, for a distance d >= 0 and v below 10^10
below(d, v, e) ==
  IF v <= 0 THEN FALSE
  ELSE IF e >= 0 THEN e > 9 \/ d \div pow10(e) < v
  ELSE IF e < 0 - 9 THEN d = 0
  ELSE d < (v + pow10(0 - e) - 1) \div pow10(0 - e)

\* d <= v * 10^e, for a distance d >= 0 and v below 10^10
atMost(d, v, e) ==
  IF v <= 0 THEN v = 0 /\ d = 0
  ELSE IF e >= 0 THEN e > 9 \/ (d + pow10(e) - 1) \div pow10(e) <= v
  ELSE IF e < 0 - 9 THEN d = 0
  ELSE d <= v \div pow10(0 - e)

\* the radius test excluding the radius itself
insideRadius(d, KM) ==
  /\ d.t = "number"
  /\ \/ KM.t = "Infinity" /\ KM.sign = 1
     \/ KM.t = "number" /\ below(d.v, KM.v, KM.e)

\* getAllNearbyAirports: "if (d <= KM)", d a number of metres or NaN and
\* KM = v * 10^e metres; true for every number d when KM is Infinity,
\* false when d or KM is NaN or KM is -Infinity
withinRadius(d, KM) ==
  /\ d.t = "number"
  /\ \/ KM.t = "Infinity" /\ KM.sign = 1
     \/ KM.t = "number" /\ atMost(d.v, KM.v, KM.e)

\* found.push({ ...airport, distance: d / KM_PER_NM })
withDistance(airport, d) == [distance |-> d \div KM_PER_NM] @@ airport

\* one step of the stable sort: x goes behind every element that is not
\* farther than x
insert(sorted, x) ==
  LET n == Cardinality({i \in 1..Len(sorted) : sorted[i].distance <= x.distance})
  IN SubSeq(sorted, 1, n) \o <<x>> \o SubSeq(sorted, n + 1, Len(sorted))

\* found.sort((a, b) => a.distance - b.distance)
RECURSIVE sort(_)
sort(found) ==
  IF found = <<>> THEN <<>>
  ELSE insert(sort(SubSeq(found, 1, Len(found) - 1)), found[Len(found)])

\* getAllNearbyAirports from its second statement on, (lat, long) being
\* the position api.get answered with: what it returns and the cached
\* airports afterwards
getAllNearbyAirports(cached, varName, lat, long) ==
  LET KM == radiusKM(varName)
      d(i) == distance(lat, long, cached[i])
      near == SelectSeq([i \in 1..Len(cached) |-> i],
                        LAMBDA i : withinRadius(d(i), KM))
      found == [k \in 1..Len(near) |->
                  withDistance(cached[near[k]], d(near[k]).v)]
  IN [value |-> ListValue(sort(found)), airports |-> cached]

\* this.airports.find((airport) => airport.icao === icao)
find(cached, icao) ==
  IF \E i \in 1..Len(cached) : StringValue(cached[i].icao) = icao
  THEN AirportValue(cached[CHOOSE i \in 1..Len(cached) :
                             /\ StringValue(cached[i].icao) = icao
                             /\ \A j \in 1..(i - 1) :
                                  StringValue(cached[j].icao) # icao])
  ELSE UndefinedValue

\* getAirport: an object with the find result under the key varName
getAirport(cached, varName) ==
  ObjectValue(<<<<varName, find(cached, getVarArg(varName))>>>>)

\* AirportHandler.get(varName) calls getAllNearbyAirports, which begins
\* with "await this.api.get(`PLANE_LATITUDE`, `PLANE_LONGITUDE`)"
asksPosition(varName) ==
  varName # ALL_AIRPORTS /\ startsWith(varName, NEARBY_AIRPORTS)

\* AirportHandler.get(varName) on the cached airports, (lat, long) being
\* the position api.get answered getAllNearbyAirports with: the object it
\* returns and the cached airports afterwards
airportsGet(cached, varName, lat, long) ==
  LET propName == replaceAllSpaces(varName)
  IN IF varName = ALL_AIRPORTS
     THEN [result |-> ObjectValue(<<<<propName, ListValue(cached)>>>>),
           airports |-> cached]
     ELSE IF startsWith(varName, NEARBY_AIRPORTS)
     THEN LET r == getAllNearbyAirports(cached, varName, lat, long)
          IN [result |-> ObjectValue(<<<<propName, r.value>>>>),
              airports |-> r.airports]
     ELSE IF startsWith(varName, AIRPORT)
     THEN [result |-> ObjectValue(<<<<propName, getAirport(cached, varName)>>>>),
           airports |-> cached]
     ELSE [result |-> ObjectValue(<<>>), airports |-> cached]

\* handler.supports(name)
supports(name) ==
  \/ name \in SPECIAL_VARS
  \/ startsWith(name, NEARBY_AIRPORTS)
  \/ startsWith(name, AIRPORT)

\* handler(varName), the function getAirportHandler resolves with, once
\* init has called finished: airports.get(varName).  For a name that
\* leads to getAllNearbyAirports the call issues api.get for the plane's
\* position and waits for its answer, or is rejected when that api.get
\* throws; for any other name it returns its result at once.  One call
\* is made at a time.
handler(varName) ==
  /\ pc = "done"
  /\ airports.t = "list"
  /\ query.op # "await"
  /\ IF asksPosition(varName)
     THEN /\ doGet(<<PLANE_LATITUDE, PLANE_LONGITUDE>>, "airports")
          /\ query' = [op |-> IF handle = 0 THEN "rejected" ELSE "await",
                       varName |-> varName,
                       ticket |-> IF handle = 0 THEN 0
                                  ELSE Len(promises) + 1,
                       plane |-> <<0, 0>>,
                       result |-> UndefinedValue, supports |-> FALSE]
          /\ UNCHANGED airports
     ELSE /\ LET r == airportsGet(airports.v, varName, 0, 0)
             IN /\ airports' = ListValue(r.airports)
                /\ query' = [op |-> "get", varName |-> varName, ticket |-> 0,
                             plane |-> <<0, 0>>, result |-> r.result,
                             supports |-> FALSE]
          /\ transport' = <<>> /\ allocated' = <<>> /\ released' = {}
          /\ lastError' = NoError
          /\ UNCHANGED <<id, reserved, dataDefs, dataListeners, promises>>
  /\ handlerCalls' = <<>>
  /\ lastOp' = <<"handler", varName>>
  /\ UNCHANGED <<connected, handleVars, facilityIds,
                 eventListeners, subscribeCalls, timers, sched>>
  /\ UNCHANGED <<calls, conn, pc, airportHandle, handlerId, requestId, list,
                 listening, file, toProcess, detail, detailListeners,
                 initEffects>>

\* getAllNearbyAirports, resumed after its await once api.get's promise
\* is resolved with the plane's position, and the handler's result
handlerResumes ==
  /\ query.op = "await"
  /\ promises[query.ticket].state = "resolved"
  /\ airports.t = "list"
  /\ LET position == promises[query.ticket].value
         r == airportsGet(airports.v, query.varName, position[1], position[2])
     IN /\ airports' = ListValue(r.airports)
        /\ query' = [query EXCEPT !.op = "get", !.plane = position,
                                  !.result = r.result]
  /\ noApiEffects
  /\ lastOp' = <<"handlerResumes">>
  /\ UNCHANGED <<apiVars, calls, conn, pc, airportHandle, handlerId,
                 requestId, list, listening, file, toProcess, detail,
                 detailListeners, initEffects>>

\* a call of handler.supports(name)
supportsCall(name) ==
  /\ pc = "done"
  /\ query.op # "await"
  /\ query' = [op |-> "supports", varName |-> name, ticket |-> 0,
               plane |-> <<0, 0>>, result |-> UndefinedValue,
               supports |-> supports(name)]
  /\ noApiEffects
  /\ lastOp' = <<"supports", name>>
  /\ UNCHANGED <<apiVars, calls, conn, pc, airportHandle, handlerId,
                 requestId, list, listening, file, airports, toProcess,
                 detail, detailListeners, initEffects>>

(***************************************************************************)
(* Specifications                                                          *)
(***************************************************************************)

\* In Spec, where every operation interleaves with every other, on and off
\* take one handler and events carry one value; SpecEvents varies both.
SpecHandlers == {"h1"}
SpecEventData == {1}

\* what a simObjectData message carries where the values do not matter
SpecData == {<<0, 0>>}

\* the variable names with which the handler asks for the plane's position
NearbyNames == {n \in VarNames : asksPosition(n)}

\* opts.onConnect left to its default
NoOnConnect == [op |-> "none", name |-> "Pause", handler |-> "h1"]

\* the names handed to getSpecial
SpecialNames ==
  {replaceAllSpaces(NEARBY_AIRPORTS), NEARBY_AIRPORTS,
   replaceAllSpaces(ALL_AIRPORTS)}

\* the whole class: every call and every inbound message or timer, on
\* an object connect was called for once, with any onConnect, or, before
\* open answered, a second time
Next ==
  \/ conn = <<>> /\ \E oc \in OnConnects : connectCall(0, 0, oc)
  \/ conn # <<>> /\ ~connected /\ Len(conn) < MaxConnectCalls
       /\ connectCall(0, 0, NoOnConnect)
  \/ \E k \in 1..Len(conn) : openSucceeds(k)
  \/ calls < MaxCalls /\ \E n \in EventNames, h \in SpecHandlers : on(n, h)
  \/ calls < MaxCalls /\ \E n \in EventNames, h \in SpecHandlers : off(n, h)
  \/ calls < MaxCalls /\ Len(promises) < MaxGets
       /\ \E names \in PropLists : get(names)
  \/ calls < MaxCalls /\ \E name \in SetProps : set(name)
  \/ calls < MaxCalls /\ setUnknownRun(MaxRun)
  \/ calls < MaxCalls /\ trigger
  \/ calls < MaxCalls /\ Len(promises) < MaxGets /\ schedule
  \/ calls < MaxCalls /\ stop
  \/ calls < MaxCalls /\ \E n \in SpecialNames : getSpecial(n)
  \/ \E h \in onEvent, i \in MessageIds, d \in SpecEventData :
       handleSystemEvent(h, i, d)
  \/ \E h \in onEvent, i \in MessageIds, d \in SpecEventData :
       airportList(h, i, d)
  \/ \E h \in onEvent, i \in MessageIds, d \in SpecData :
       simObjectData(h, i, d)
  \/ setTimeout
  \/ Len(promises) < MaxGets /\ run
  \/ runResumes

Spec == Init /\ [][Next]_vars

\* the allocator alone, driven through its two public methods
NextAlloc ==
  \/ calls < MaxAllocCalls /\ callNextId
  \/ calls < MaxAllocCalls /\ \E i \in MessageIds : callReleaseId(i)
  \/ calls < MaxAllocCalls /\ \E n \in RunLengths : setUnknownRun(n)

SpecAlloc == Init /\ [][NextAlloc]_vars

\* the ids an event message may carry: those of the subscriptions, and
\* one that no subscription has
EventIds ==
  {eventListeners[n].eventID : n \in DOMAIN eventListeners} \cup {id}

\* the event-listener table: on, off and the event messages dispatched to
\* it, on an object connect was called for once, with any onConnect, or,
\* before open answered, a second time
NextEvents ==
  \/ conn = <<>> /\ \E oc \in OnConnects : connectCall(0, 0, oc)
  \/ conn # <<>> /\ ~connected /\ Len(conn) < MaxConnectCalls
       /\ connectCall(0, 0, NoOnConnect)
  \/ \E k \in 1..Len(conn) : openSucceeds(k)
  \/ calls < MaxEventCalls /\ \E n \in EventNames, h \in Handlers : on(n, h)
  \/ calls < MaxEventCalls /\ \E n \in EventNames, h \in Handlers : off(n, h)
  \/ \E h \in onEvent, i \in EventIds, d \in EventData :
       handleSystemEvent(h, i, d)

SpecEvents == Init /\ [][NextEvents]_vars

\* the one-shot operations: get (also without names), set, trigger,
\* schedule, their responses and their timers, before and after the
\* connection answers
NextRequests ==
  \/ conn = <<>> /\ connectCall(0, 0, NoOnConnect)
  \/ openSucceeds(1)
  \/ calls < MaxRequestCalls /\ Len(promises) < MaxGets
       /\ \E names \in PropLists \cup {<<>>} : get(names)
  \/ calls < MaxRequestCalls /\ \E name \in SetProps : set(name)
  \/ calls < MaxRequestCalls /\ \E n \in RunLengths : setUnknownRun(n)
  \/ calls < MaxRequestCalls /\ trigger
  \/ calls < MaxRequestCalls /\ Len(promises) < MaxGets /\ schedule
  \/ calls < MaxRequestCalls /\ stop
  \/ \E i \in MessageIds, d \in SpecData : simObjectData(1, i, d)
  \/ setTimeout
  \/ Len(promises) < MaxGets /\ run
  \/ runResumes

SpecRequests == Init /\ [][NextRequests]_vars

\* one event with handlers that call off and on while an event is
\* dispatched to them
NextDispatch ==
  \/ conn = <<>> /\ connectCall(0, 0, NoOnConnect)
  \/ openSucceeds(1)
  \/ calls < MaxDispatchCalls /\ \E h \in Handlers : on("Pause", h)
  \/ calls < MaxDispatchCalls /\ \E h \in Handlers : off("Pause", h)
  \/ \E i \in MessageIds, d \in EventData, s \in Scripts :
       /\ \A n \in DOMAIN eventListeners :
            Len(eventListeners[n].handlers) <= MaxHandlers
       /\ handleSystemEventWith(1, i, d, s)

SpecDispatch == Init /\ [][NextDispatch]_vars

\* the allocator filled up: runs of nextId calls that reserve the range,
\* single calls, and releases at the two ends of the range and below it
NextExhaust ==
  \/ calls < MaxExhaustCalls /\ \E n \in FillLengths : nextIdRun(n)
  \/ calls < MaxExhaustCalls /\ callNextId
  \/ calls < MaxExhaustCalls /\ \E i \in {0, FirstId, Ceiling} : callReleaseId(i)

SpecExhaust == Init /\ [][NextExhaust]_vars

\* the two special events: on and off for their names, the requests of
\* getSpecial, the subscription of getAirportHandler, and the messages of
\* the facility subscriptions and requests
NextAirportEvents ==
  \/ conn = <<>> /\ connectCall(0, 0, NoOnConnect)
  \/ openSucceeds(1)
  \/ calls < MaxAirportEventCalls
       /\ \E n \in AirportEventNames, h \in Handlers : on(n, h)
  \/ calls < MaxAirportEventCalls
       /\ \E n \in AirportEventNames, h \in Handlers : off(n, h)
  \/ calls < MaxAirportEventCalls
       /\ \E n \in SpecialNames : getSpecial(n)
  \/ getAirportHandler
  \/ \E i \in MessageIds, d \in EventData : handleSystemEvent(1, i, d)
  \/ \E i \in MessageIds, d \in EventData : airportList(1, i, d)

SpecAirportEvents == Init /\ [][NextAirportEvents]_vars

\* connect and its retry loop, with open failing or succeeding: one call
\* with any options, further calls with the default ones, and nextId
\* calls made by the user meanwhile
NextConnect ==
  \/ conn = <<>>
       /\ \E n \in RetryCounts, i \in RetryIntervals, oc \in OnConnects :
            connectCall(n, i, oc)
  \/ conn # <<>> /\ Len(conn) < MaxConnectCalls
       /\ connectCall(0, 0, NoOnConnect)
  \/ \E k \in 1..Len(conn) : openFails(k)
  \/ \E k \in 1..Len(conn) : retryTimer(k)
  \/ \E k \in 1..Len(conn) : openSucceeds(k)
  \/ calls < MaxConnectCalls /\ callNextId

SpecConnect == Init /\ [][NextConnect]_vars

\* the state after the airport module was loaded, with any cache file
InitAirportHandler == InitApi /\ \E f \in InitFiles : InitAirports(f)

\* the start-up of an AirportHandler for a connected API: the facility
\* list, the cache file, the rebuild
NextAirportInit ==
  \/ conn = <<>> /\ connectCall(0, 0, NoOnConnect)
  \/ openSucceeds(1)
  \/ getAirportHandler
  \/ initOpened
  \/ initOpenFails
  \/ initEffects.pages < MaxPages
       /\ \E r \in {requestId, requestId + 1}, e \in PageEntries,
             n \in EntryNumbers, o \in OutOfs : airportListPage(r, e, n, o)
  \/ initResumes
  \/ initEffects.data < MaxData
       /\ \E r \in {detail.requestID, detail.requestID + 1},
             m \in FacilityMessages : facilityData(r, m.type, m.data)
  \/ \E r \in {detail.requestID, detail.requestID + 1} : facilityDataEnd(r)
  \/ processAirportsResumes
  \/ initEnds

SpecAirportInit == InitAirportHandler /\ [][NextAirportInit]_vars

\* the rebuild of a list of one airport, its facility data carrying
\* runways with every enum index
NextDecode ==
  \/ conn = <<>> /\ connectCall(0, 0, NoOnConnect)
  \/ openSucceeds(1)
  \/ getAirportHandler
  \/ initOpened
  \/ listening /\ airportListPage(requestId, <<[icao |-> KSEA]>>, 0, 1)
  \/ initResumes
  \/ initEffects.data < MaxDecoded /\ pc = "details"
       /\ \E d \in DecodeRunways : facilityData(detail.requestID, 1, d)
  \/ pc = "details" /\ facilityDataEnd(detail.requestID)
  \/ processAirportsResumes
  \/ initEnds

SpecDecode == Init /\ [][NextDecode]_vars

\* the state after the airport module was loaded, with a cache file
\* that holds airports
InitQuery == InitApi /\ \E f \in QueryFiles : InitAirports(f)

\* an AirportHandler that starts on a cache file, the simulator's list
\* coming in one empty page, and the queries made of it afterwards, with
\* the answers to the api.get calls they make
NextQuery ==
  \/ conn = <<>> /\ connectCall(0, 0, NoOnConnect)
  \/ openSucceeds(1)
  \/ getAirportHandler
  \/ initOpened
  \/ listening /\ airportListPage(requestId, <<>>, 0, 1)
  \/ initResumes
  \/ Len(promises) < MaxNearby /\ \E n \in NearbyNames : handler(n)
  \/ \E n \in VarNames \ NearbyNames : handler(n)
  \/ \E n \in VarNames : supportsCall(n)
  \/ query.op = "await"
       /\ \E i \in {promises[query.ticket].DATA_ID, id}, d \in PlaneData :
            simObjectData(1, i, d)
  \/ handlerResumes

SpecQuery == InitQuery /\ [][NextQuery]_vars

(***************************************************************************)
(* Properties                                                              *)
(***************************************************************************)

\* the elements of a sequence
Range(q) == {q[i] : i \in 1..Len(q)}

\* no value occurs twice in a sequence
Distinct(q) == \A i, j \in 1..Len(q) : i # j => q[i] # q[j]

\* C1: a value nextId returns was not in the reserved set when nextId was
\* called, and it is in the reserved set afterwards; an id leaves the
\* reserved set only by a releaseId call for it.
C1_NextIdReturnsUnreserved ==
  [][/\ \A i \in 1..Len(allocated') :
          /\ allocated'[i] \notin reserved
          /\ allocated'[i] \in reserved' \cup released'
     /\ reserved \ reserved' \subseteq released']_vars

\* C1 witness: after the counter wrapped, nextId skipped reserved values:
\* it returned a value whose predecessor is still reserved, while an id
\* handed out at the ceiling is reserved too.
C1_Witness ==
  /\ lastOp = <<"nextId">>
  /\ allocated[1] - 1 \in reserved
  /\ allocated[1] < Ceiling
  /\ Ceiling \in reserved

\* the ids held by live operations: pending gets, sets awaiting their
\* cleanup timer, and what the listeners on airportList messages hold:
\* the facility subscriptions and the pending facility-list requests
HeldIds ==
  [i \in 1..Len(dataListeners) |-> dataListeners[i].DATA_ID]
    \o [k \in 1..Len(timers) |-> timers[k].DATA_ID]
    \o flatten([k \in 1..Len(onAirportList) |-> onAirportList[k].ids])

\* C2: no two live operations hold the same id, and a simObjectData
\* message resolves at most one get: the one issued with the message's id.
C2_LiveOperationsHoldDistinctIds ==
  /\ [](/\ Distinct(HeldIds)
        /\ \A n \in DOMAIN eventListeners :
             /\ eventListeners[n].eventID \notin Range(HeldIds)
             /\ \A m \in DOMAIN eventListeners :
                  m # n => eventListeners[m].eventID # eventListeners[n].eventID)
  /\ [][lastOp'[1] = "simObjectData" =>
          /\ Cardinality({t \in 1..Len(promises) :
                            promises'[t] # promises[t]}) <= 1
          /\ \A t \in 1..Len(promises) :
               promises'[t] # promises[t] =>
                 promises[t].DATA_ID = lastOp'[2]]_vars

\* C2 witness: a response resolved a get while a set, called after that
\* get, was awaiting its timer.
C2_Witness ==
  /\ lastOp[1] = "simObjectData"
  /\ released # {}
  /\ timers # <<>>

\* C3: a get's promise is settled at most once, and only by a
\* simObjectData message carrying the get's id; that step unregisters the
\* listener, clears the data definition and releases the id.  Until then
\* the get stays pending with its listener registered, its properties
\* defined under its id and its id reserved, whatever other message arrives.  A message that carries the id of a
\* pending get, on the connection the get was made on, resolves its
\* promise with the message's data.
C3_GetCompletesOnceOnMatch ==
  /\ [](\A t \in 1..Len(promises) :
          /\ promises[t].settled <= 1
          /\ (promises[t].state = "resolved") = (promises[t].settled = 1)
          /\ promises[t].state = "pending" =>
               /\ promises[t].DATA_ID \in reserved
               /\ \E i \in 1..Len(dataListeners) :
                    /\ dataListeners[i].ticket = t
                    /\ dataListeners[i].REQUEST_ID = promises[t].DATA_ID
                    /\ \A j \in 1..Len(promises[t].propNames) :
                         <<promises[t].DATA_ID, promises[t].propNames[j],
                           dataListeners[i].handle>> \in dataDefs)
  /\ [][lastOp'[1] = "simObjectData" =>
          \A k \in 1..Len(dataListeners) :
            (/\ dataListeners[k].handle = lastOp'[4]
             /\ dataListeners[k].REQUEST_ID = lastOp'[2]) =>
              /\ promises[dataListeners[k].ticket].state = "pending"
              /\ promises'[dataListeners[k].ticket].state = "resolved"
              /\ promises'[dataListeners[k].ticket].settled = 1
              /\ promises'[dataListeners[k].ticket].value = lastOp'[3]]_vars
  /\ [][\A t \in 1..Len(promises) :
          promises'[t] # promises[t] =>
            /\ lastOp'[1] = "simObjectData"
            /\ lastOp'[2] = promises[t].DATA_ID
            /\ promises[t].state = "pending"
            /\ promises'[t].state = "resolved"
            /\ \A i \in 1..Len(dataListeners') : dataListeners'[i].ticket # t
            /\ \A x \in dataDefs' : x[1] # promises[t].DATA_ID
            /\ promises[t].DATA_ID \notin reserved'
            /\ promises[t].DATA_ID \in released']_vars

\* C3 witness: a message with another id arrived while a get was pending
\* and left it pending, after an earlier get was resolved by its own message.
C3_Witness ==
  /\ lastOp[1] = "simObjectData"
  /\ released = {}
  /\ \E t \in 1..Len(promises) : promises[t].state = "pending"
  /\ \E t \in 1..Len(promises) : promises[t].state = "resolved"

\* C4: subscribeToSystemEvent has been called exactly once for every event
\* name that ever had a listener and never for another; on for a name that
\* has an entry calls nothing on the transport and takes no id.
C4_OneSubscribePerEventName ==
  /\ [](\A n \in EventNames :
          subscribeCalls[n] = IF n \in DOMAIN eventListeners THEN 1 ELSE 0)
  /\ [][\A n \in DOMAIN eventListeners, h \in Handlers :
          on(n, h) => /\ transport' = <<>>
                      /\ allocated' = <<>>
                      /\ UNCHANGED <<id, reserved, subscribeCalls>>]_vars

\* C4 witness: on registered a handler for a name whose handlers had all
\* been removed, and no id was taken.
C4_Witness ==
  /\ lastOp[1] = "on"
  /\ allocated = <<>>
  /\ Len(eventListeners[lastOp[2]].handlers) = 1
  /\ calls >= 3

\* C5: on for an event that already had a value dispatched calls the new
\* handler during the call with that value, whatever the value is.
C5_LateHandlerReceivesLastValue ==
  [][\A n \in DOMAIN eventListeners, h \in Handlers :
       (on(n, h) /\ eventListeners[n].data # Undefined) =>
         handlerCalls' = <<<<h, eventListeners[n].data>>>>]_vars

\* C6: an event message for an id with an entry, on whichever of the
\* API's handles it arrives, stores the data in the entry and calls every
\* registered handler once with it, in registration order, leaving the
\* registrations as they were.
C6_DispatchInRegistrationOrder ==
  [][\A c \in onEvent, i \in MessageIds, d \in EventData :
       handleSystemEvent(c, i, d) /\ entryNames(eventListeners, i) # {} =>
           LET n == entryFor(eventListeners, i)
               registered == eventListeners[n].handlers
           IN /\ eventListeners'[n].data = d
              /\ eventListeners'[n].handlers = registered
              /\ Len(handlerCalls') = Len(registered)
              /\ \A k \in 1..Len(registered) :
                   handlerCalls'[k] = <<registered[k], d>>]_vars

\* C6 witness: an event was dispatched to two different handlers, the one
\* registered first called first, on an object that connect was called
\* for twice: the event arrived on the handle of the first call, the
\* handlers having been registered after the second had replaced it.
C6_Witness ==
  /\ lastOp[1] = "event"
  /\ lastOp[3] = 1
  /\ handle = 2
  /\ Len(handlerCalls) = 2
  /\ handlerCalls[1][1] # handlerCalls[2][1]

\* a handler list without the first occurrence of h
WithoutFirst(handlers, h) ==
  IF h \in Range(handlers)
  THEN LET p == CHOOSE i \in 1..Len(handlers) :
                  /\ handlers[i] = h
                  /\ \A j \in 1..(i - 1) : handlers[j] # h
       IN SubSeq(handlers, 1, p - 1) \o SubSeq(handlers, p + 1, Len(handlers))
  ELSE handlers

\* C7: off(E, h) removes the first occurrence of h from E's handlers and
\* nothing else, is a no-op when h is not registered for E, calls nothing
\* on the transport and releases no id.
C7_OffRemovesFirstOccurrenceOnly ==
  [][\A n \in EventNames, h \in Handlers :
       off(n, h) =>
         /\ lastError' = NoError
         /\ transport' = <<>>
         /\ released' = {}
         /\ UNCHANGED <<reserved, subscribeCalls>>
         /\ DOMAIN eventListeners' = DOMAIN eventListeners
         /\ \A m \in DOMAIN eventListeners :
              /\ eventListeners'[m].eventID = eventListeners[m].eventID
              /\ eventListeners'[m].handlers =
                   IF m = n THEN WithoutFirst(eventListeners[m].handlers, h)
                   ELSE eventListeners[m].handlers]_vars

\* the name a failing get reports: the first one, in argument order,
\* that is no simvar
FirstUnknownName(names) ==
  LET k == CHOOSE i \in 1..Len(names) :
             /\ replaceAll(names[i]) \notin SimVars
             /\ \A j \in 1..(i - 1) : replaceAll(names[j]) \in SimVars
  IN replaceAll(names[k])

\* what the step of a get or set that fails for property name `prop` does
FailsCleanly(prop) ==
  /\ lastError'.kind # "none"
  /\ lastError'.prop = prop
  /\ reserved' = reserved
  /\ Range(allocated') \subseteq released'
  /\ \A x \in dataDefs' : x[1] \notin Range(allocated')
  /\ \A k \in 1..Len(transport') :
       transport'[k][1] \notin {"requestDataOnSimObject", "setDataOnSimObject"}
  /\ UNCHANGED <<dataListeners, promises, timers>>

\* C8: get or set with an unknown property name throws an error naming the
\* property; the reserved set is what it was before the call, no data
\* definition stays under the id the call took, no request or write is
\* sent, and no listener, promise or timer is left behind.
C8_UnknownPropertyReleasesId ==
  [][/\ \A names \in PropLists :
          (get(names) /\ \E i \in 1..Len(names) :
                            replaceAll(names[i]) \notin SimVars)
            => FailsCleanly(FirstUnknownName(names))
     /\ \A name \in SetProps :
          (set(name) /\ replaceAll(name) \notin SimVars)
            => FailsCleanly(replaceAll(name))]_vars

\* the ids the pending cleanup timers of set hold, oldest first
TimerIds == [k \in 1..Len(timers) |-> timers[k].DATA_ID]

\* C9: set with a known property writes in the same step and starts one
\* cleanup timer; its id stays reserved and defined until that timer
\* fires, no nextId call returns it meanwhile, and only the timer's own
\* firing releases it and clears its definition.
C9_SetHoldsIdUntilTimer ==
  /\ [](/\ Distinct(TimerIds)
        /\ \A k \in 1..Len(timers) :
             /\ timers[k].DATA_ID \in reserved
             /\ \E x \in dataDefs : /\ x[1] = timers[k].DATA_ID
                                    /\ x[3] = timers[k].handle)
  /\ [][\A name \in SetProps :
          (set(name) /\ replaceAll(name) \in SimVars) =>
            /\ \E k \in 1..Len(transport') :
                 transport'[k] = <<"setDataOnSimObject", allocated'[1]>>
            /\ TimerIds' = Append(TimerIds, allocated'[1])]_vars
  /\ [][\A x \in Range(TimerIds) :
          /\ x \notin Range(allocated')
          /\ (x \in released' \/ x \notin reserved'
                \/ x \notin Range(TimerIds')
                \/ \A y \in dataDefs' : y[1] # x) =>
               /\ setTimeout
               /\ x = Head(TimerIds)
               /\ released' = {x}
               /\ x \notin reserved'
               /\ x \notin Range(TimerIds')
               /\ \A y \in dataDefs' : y[1] # x]_vars

\* the number of gets the run loop of schedule has issued
ScheduledGets ==
  Cardinality({t \in 1..Len(promises) : promises[t].owner = "schedule"})

\* C10: once the function schedule returned has been called, the schedule
\* issues no further get.
C10_StopSuppressesNextTick ==
  [][(sched.pc # "none" /\ ~sched.running) =>
       ScheduledGets' = ScheduledGets]_vars

\* C11: a connect call with retry count n makes at most n + 1 open
\* attempts; a failed attempt with retries left calls onRetry exactly once,
\* with the retries left after this one and the retry interval, and only
\* then schedules the next attempt; a failed attempt without retries left
\* calls no onRetry; and every attempt after the first was preceded by its
\* own notification.
C11_RetriesBoundedAndNotified ==
  /\ [](\A c \in 1..Len(conn) :
          /\ conn[c].attempts <= conn[c].requested + 1
          /\ conn[c].attempts <= conn[c].notified + 1
          /\ conn[c].pc = "open" => conn[c].attempts = conn[c].notified + 1)
  /\ [][\A c \in 1..Len(conn) :
          lastOp' = <<"openFails", c>> =>
            IF conn[c].retries > 0
            THEN /\ conn'[c].effects =
                      <<<<"onRetry", conn[c].retries - 1,
                          conn[c].retryInterval>>,
                        <<"setTimeout", 1000 * conn[c].retryInterval>>>>
                 /\ conn'[c].notified = conn[c].notified + 1
                 /\ conn'[c].attempts = conn[c].attempts
            ELSE /\ \A k \in 1..Len(conn'[c].effects) :
                      conn'[c].effects[k][1] \notin {"onRetry", "setTimeout"}
                 /\ conn'[c].notified = conn[c].notified
                 /\ conn'[c].attempts = conn[c].attempts]_vars

\* C11 witness: a connect call with at least two retries used them all up,
\* one attempt more than its retry count, one notification per retry,
\* while a second connect call was made and answered.
C11_Witness ==
  /\ Len(conn) = 2
  /\ conn[1].pc = "failed"
  /\ conn[1].requested >= 2
  /\ conn[1].attempts = conn[1].requested + 1
  /\ conn[1].notified = conn[1].requested
  /\ conn[2].pc = "connected"

\* C12: when the retries of a connect call are used up, the promise the
\* caller got from connect is rejected; and that promise is not fulfilled
\* while there is no connection.
C12_ExhaustedRetriesRejectCallersPromise ==
  \A c \in 1..Len(conn) :
    /\ conn[c].pc = "failed" => conn[c].promises[1] = "rejected"
    /\ conn[c].promises[1] = "fulfilled" => connected

\* C13: every value nextId returns lies in the id range 1..900, whatever
\* nextId and releaseId calls came before.
C13_NextIdWithinRange ==
  \A k \in 1..Len(allocated) :
    FirstId <= allocated[k] /\ allocated[k] <= Ceiling

\* C14: an airportList message carrying the in-range id of the facility
\* subscription calls, with the message's airports, every handler
\* registered with on for AIRPORTS_IN_RANGE; likewise the out-of-range id
\* and the handlers registered for AIRPORTS_OUT_OF_RANGE.
C14_AirportEventsReachHandlers ==
  [][\A d \in EventData, h \in Handlers, j \in 1..Len(onAirportList),
        k \in 1..2 :
       LET l == onAirportList[j]
           eventName == IF k = 1 THEN AIRPORTS_IN_RANGE
                        ELSE AIRPORTS_OUT_OF_RANGE
       IN (/\ l.kind = "facility"
           /\ eventName \in DOMAIN eventListeners
           /\ h \in Range(eventListeners[eventName].handlers)
           /\ airportList(l.handle, l.ids[k], d))
            => <<h, d>> \in Range(handlerCalls')]_vars

\* str begins with prefix
HasPrefix(str, prefix) ==
  /\ Len(str) >= Len(prefix)
  /\ \A i \in 1..Len(prefix) : str[i] = prefix[i]

\* the text behind the first colon of str
AfterColon(str) ==
  LET c == CHOOSE i \in 1..Len(str) :
             str[i] = ":" /\ \A j \in 1..(i - 1) : str[j] # ":"
  IN [k \in 1..(Len(str) - c) |-> str[c + k]]

\* the value under the only key of the object the handler returned
ResultValue == query.result.entries[1][2]

\* C15: the handler called with "AIRPORT:" + code returns, under its
\* result key, the first cached airport whose icao is code, the element
\* of the cache itself, and undefined when no cached airport has it.
C15_AirportLookupYieldsAirport ==
  (query.op = "get" /\ HasPrefix(query.varName, AIRPORT)) =>
    LET code == AfterColon(query.varName)
        cached == airports.v
        hits == {i \in 1..Len(cached) : cached[i].icao = code}
    IN /\ Len(query.result.entries) = 1
       /\ IF hits = {}
          THEN ResultValue.t = "undefined"
          ELSE /\ ResultValue.t = "airport"
               /\ ResultValue.v =
                    cached[CHOOSE i \in hits : \A j \in hits : i <= j]

\* the radius a NEARBY AIRPORTS name asks for, in nautical miles
RadiusNM(varName) ==
  IF \A i \in 1..Len(varName) : varName[i] # ":"
  THEN NumberValue(DefaultRadius)
  ELSE toNumber(StringValue(AfterColon(varName)))

\* the distance in metres between the plane of the last query and the
\* i-th cached airport, which has a position
PlaneDistance(i) ==
  dist(query.plane[1], query.plane[2],
       airports.v[i].latitude, airports.v[i].longitude)

\* the places in the cache of the airports within the radius that the
\* name of the last query asks for, around the plane of that query.  An
\* airport cached without a position has no distance and is within no
\* radius.
InRadius ==
  LET r == RadiusNM(query.varName)
      cached == airports.v
      D(i) == PlaneDistance(i)
  IN {i \in {j \in 1..Len(cached) :
                {"latitude", "longitude"} \subseteq DOMAIN cached[j]} :
        \/ r.t = "Infinity" /\ r.sign = 1
        \/ /\ r.t = "number"
           /\ IF r.e > 9 THEN r.v > 0
              ELSE IF r.e >= 0 THEN D(i) <= r.v * pow10(r.e) * KM_PER_NM
              ELSE IF r.e < 0 - 9 THEN D(i) = 0 /\ r.v >= 0
              ELSE D(i) * pow10(0 - r.e) <= r.v * KM_PER_NM}

\* C16: the handler answers "ALL AIRPORTS", and no other name beginning
\* so, with the whole cache; a name beginning with "NEARBY AIRPORTS" with
\* the airports within the radius written behind its colon, or within
\* 200 NM when it has no colon (records without a position are within no
\* radius); a name beginning with "AIRPORT:" with the ICAO lookup; any other name with an empty object; and supports(name)
\* is true exactly for the names the handler answers with a non-empty
\* object.
C16_GetDispatchesOnClosedSet ==
  /\ query.op = "get" =>
       LET n == query.varName
           r == query.result.entries
           cached == airports.v
       IN /\ query.result.t = "object"
          /\ IF n = ALL_AIRPORTS
             THEN Len(r) = 1 /\ r[1][2] = ListValue(cached)
             ELSE IF HasPrefix(n, NEARBY_AIRPORTS)
             THEN /\ Len(r) = 1
                  /\ r[1][2].t = "list"
                  /\ {[icao |-> x.icao, latitude |-> x.latitude,
                       longitude |-> x.longitude] :
                        x \in Range(r[1][2].v)}
                       = {cached[i] : i \in InRadius}
             ELSE IF HasPrefix(n, AIRPORT)
             THEN Len(r) = 1 /\ r[1][2] = getAirport(cached, n)
             ELSE r = <<>>
          /\ (r # <<>>) = supports(n)
  /\ query.op = "supports" =>
       query.supports =
         (airportsGet(airports.v, query.varName, 0, 0).result.entries # <<>>)

\* C16 witness: "NEARBY AIRPORTS" without a colon was answered, once
\* api.get had reported the plane's position, from a cache of one airport
\* 205 NM away and one 200 NM away with the nearer one alone.
C16_Witness ==
  /\ query.op = "get"
  /\ lastOp = <<"handlerResumes">>
  /\ query.varName = NEARBY_AIRPORTS
  /\ query.plane = <<210, 0>>
  /\ airports = ListValue(<<AirportA, AirportB>>)
  /\ Len(ResultValue.v) = 1
  /\ ResultValue.v[1].distance = 200

\* C17: getAllNearbyAirports returns one record per cached airport within
\* the radius and none else, each the airport with its distance in
\* nautical miles added, nearest first and equally distant ones in cache
\* order; the call leaves the cached airports and the cache file as they
\* were.  A cached record without a position has no distance and is
\* within no radius, an infinite one included.
C17_NearbySortedWithinRadius ==
  /\ []((query.op = "get" /\ HasPrefix(query.varName, NEARBY_AIRPORTS)) =>
          LET cached == airports.v
              v == ResultValue.v
              D(i) == PlaneDistance(i)
          IN /\ Len(v) = Cardinality(InRadius)
             /\ \E f \in [1..Len(v) -> InRadius] :
                  /\ \A k, l \in 1..Len(v) :
                       k < l => \/ D(f[k]) < D(f[l])
                                \/ D(f[k]) = D(f[l]) /\ f[k] < f[l]
                  /\ \A k \in 1..Len(v) :
                       v[k] = [distance |-> D(f[k]) \div KM_PER_NM]
                                @@ cached[f[k]])
  /\ [][lastOp'[1] \in {"handler", "handlerResumes"} =>
          (airports' = airports /\ file' = file)]_vars

\* C17 witness: an airport 20 NM away, a record without a position and an
\* airport 5 NM away, cached in that order, asked for with the radius
\* Infinity: the answer is the one at 5 NM, then the one at 20 NM, and the
\* record without a position is not in it.
C17_Witness ==
  /\ query.op = "get"
  /\ query.varName
       = NEARBY_AIRPORTS \o <<":", "I", "n", "f", "i", "n", "i", "t", "y">>
  /\ query.plane = <<0, 0>>
  /\ airports = ListValue(<<AirportC, AirportE, AirportA>>)
  /\ Len(ResultValue.v) = 2
  /\ ResultValue.v[1].distance = 5
  /\ ResultValue.v[2].distance = 20

\* C18: when the cache file exists and loads, init takes its content as
\* the airport set whatever the live airport count is (a mismatch only
\* adds a warning), requests no facility details, leaves the file as it
\* is and calls finished once.
C18_LoadedCacheIsUsedAsIs ==
  /\ [][(pc = "listed" /\ pc' # "listed" /\ file.kind = "array") =>
          /\ pc' = "done"
          /\ airports' = ListValue(file.airports)
          /\ file' = file
          /\ detail' = NoDetail
          /\ initEffects'.detailFields = 0
          /\ initEffects'.requests = 0
          /\ initEffects'.writes = 0
          /\ initEffects'.finished = 1
          /\ initEffects'.warnings =
               IF Len(file.airports) # Len(list') THEN 1 ELSE 0]_vars
  /\ []((file.kind = "array" /\ initEffects.writes = 0) =>
          /\ initEffects.detailFields = 0
          /\ initEffects.requests = 0
          /\ pc \notin {"details", "resolved", "processed", "rejected"}
          /\ pc = "done" => /\ airports = ListValue(file.airports)
                            /\ initEffects.finished = 1)

\* C18 witness: init ended on a cache of two airports while the simulator
\* had listed another number of them, one warning given, nothing written.
C18_Witness ==
  /\ pc = "done"
  /\ initEffects.writes = 0
  /\ initEffects.warnings = 1
  /\ airports = ListValue(<<AirportA, AirportB>>)
  /\ Len(list) # 2

\* C19: when the cache file exists but does not load, init does not end
\* in an exception, and the rebuild it starts runs on an open connection.
C19_FailedLoadRebuildsOnOpenHandle ==
  file.kind \in FailingKinds =>
    /\ pc # "rejected"
    /\ pc = "details" => airportHandle = "open"

\* C20: a page with init's request id that arrives while its handler is
\* registered is appended to the list, and the handler is removed exactly
\* when that page has entryNumber >= outOf - 1; any other page, and any
\* page after the handler was removed, leaves the list as it is; the
\* handler is never registered again.
C20_ListStopsAtLastPage ==
  /\ [][IF lastOp'[1] = "airportListPage"
        THEN IF listening /\ lastOp'[2] = requestId
             THEN /\ list' = list \o lastOp'[3]
                  /\ listening' = ~(lastOp'[4] >= lastOp'[5] - 1)
             ELSE /\ list' = list
                  /\ listening' = listening
        ELSE /\ list' = list
             /\ listening' # listening => lastOp'[1] = "initOpened"]_vars
  /\ [][(pc \notin {"new", "open"} /\ ~listening) => ~listening']_vars

\* C20 witness: after the list was complete and the rebuild had begun, a
\* page that carried init's request id and entries, and was not a last
\* page, arrived and was not accumulated.
C20_Witness ==
  /\ pc = "details"
  /\ lastOp[1] = "airportListPage"
  /\ lastOp[2] = requestId
  /\ lastOp[3] # <<>>
  /\ lastOp[4] < lastOp[5] - 1
  /\ Len(list) = 1

\* the ICAO codes of a list of entries or of records, in order
Icaos(q) == [i \in 1..Len(q) |-> q[i].icao]

\* C21: during a rebuild at most one facility-detail request is outstanding
\* and at most one pair of facilityData/facilityDataEnd listeners is
\* registered; a request stops being outstanding only by the
\* facilityDataEnd that answers it, the one carrying its request id; the
\* request for the next airport is issued only by processAirports when it
\* resumes after that facilityDataEnd; and when the rebuild has ended
\* this.airports holds one record per entry of the facility list, in list
\* order.
C21_OneDetailRequestAtATime ==
  [][/\ Len(detailListeners') <= 1
     /\ initEffects'.resolved > initEffects.resolved
          => lastOp' = <<"facilityDataEnd", detail.requestID>>
     /\ initEffects'.requests - initEffects'.resolved <= 1
     /\ initEffects'.requests - initEffects'.resolved >= 0
     /\ initEffects'.requests <= initEffects.requests + 1
     /\ (initEffects'.requests > initEffects.requests
           /\ initEffects.requests > 0)
          => /\ lastOp'[1] = "processAirportsResumes"
             /\ detailListeners = <<>>
             /\ initEffects.resolved = initEffects.requests
             /\ initEffects'.resolved = initEffects.requests
     /\ (pc' = "done" /\ initEffects'.writes > 0)
          => /\ airports'.t = "list"
             /\ Icaos(airports'.v) = Icaos(list')
             /\ initEffects'.requests = Len(list')
             /\ detailListeners' = <<>>]_vars

\* the position of the first occurrence of x in q, 0 if there is none
FirstIndex(q, x) ==
  IF \E i \in 1..Len(q) : q[i] = x
  THEN CHOOSE i \in 1..Len(q) : q[i] = x /\ \A j \in 1..(i - 1) : q[j] # x
  ELSE 0

\* the number of occurrences of x in q
Occurrences(q, x) == Cardinality({i \in 1..Len(q) : q[i] = x})

\* C22: finished is called at most once; an init that has come to its end
\* after its connection opened, by returning or by throwing, has called it
\* exactly once; and it is called only when this.airports is fully
\* populated: after a rebuild with one fetched record per list entry, the
\* cache file written with that list before finished is called; after a
\* load with the content of the cache file.
C22_FinishedOnceAfterPopulated ==
  [][/\ Occurrences(initEffects'.log, "finished") <= 1
     /\ pc' \in {"done", "rejected"} => initEffects'.finished = 1
     /\ initEffects'.finished = Occurrences(initEffects'.log, "finished")
     /\ initEffects'.writes = Occurrences(initEffects'.log, "write")
     /\ (pc' = "done") <=> (initEffects'.finished = 1)
     /\ initEffects'.finished > initEffects.finished
          => /\ airports'.t = "list"
             /\ toProcess' = <<>>
             /\ detailListeners' = <<>>
             /\ IF initEffects'.detailFields > 0
                THEN /\ initEffects'.writes = 1
                     /\ FirstIndex(initEffects'.log, "write")
                          < FirstIndex(initEffects'.log, "finished")
                     /\ file'.kind = "array"
                     /\ file'.airports = airports'.v
                     /\ Len(airports'.v) = Len(list')
                     /\ initEffects'.resolved = Len(list')
                ELSE /\ initEffects'.writes = 0
                     /\ file.kind = "array"
                     /\ airports'.v = file.airports
                     /\ file' = file]_vars

\* C23: a nextId call made while every id of the range 1..Ceiling is
\* reserved returns no id.
C23_FullRangeNeverReturns ==
  [][((\A i \in FirstId..Ceiling : i \in reserved) /\ lastOp'[1] = "nextId")
       => allocated' = <<>>]_vars

\* C24: an inbound event or airportList message whose id no subscription
\* has (and, for an airportList message, that no pending getSpecial request
\* and no airport handler's listener waits for on its handle) is dropped:
\* no handler is
\* called, no subscription's last value or handler list changes, the
\* reserved set stays and nothing is thrown.
C24_UnmatchedEventIsDropped ==
  [][(/\ lastOp'[1] \in {"event", "airportList"}
      /\ \A n \in DOMAIN eventListeners :
           eventListeners[n].eventID # lastOp'[2]
      /\ lastOp'[1] = "airportList" =>
           \A k \in 1..Len(onAirportList) :
             (/\ onAirportList[k].kind # "facility"
              /\ onAirportList[k].handle = lastOp'[3]) =>
               lastOp'[2] \notin Range(onAirportList[k].ids))
       => /\ handlerCalls' = <<>>
          /\ eventListeners' = eventListeners
          /\ reserved' = reserved
          /\ lastError' = NoError]_vars

\* an event with the id of no subscription came in while a subscription
\* with a handler and a last value existed
C24_Witness ==
  /\ lastOp[1] = "event"
  /\ \A n \in DOMAIN eventListeners : eventListeners[n].eventID # lastOp[2]
  /\ \E n \in DOMAIN eventListeners :
       /\ eventListeners[n].handlers # <<>>
       /\ eventListeners[n].data # Undefined
  /\ handlerCalls = <<>>

\* C26: the reserved set holds only the ids of event subscriptions, the
\* facility-subscription ids (two for every addAirportHandling and every
\* getAirportHandler) and the ids of operations in flight (a get awaiting
\* its response, a set awaiting its cleanup timer, a getSpecial awaiting
\* its airport list).
C26_OneShotIdsAreReleased ==
  \A i \in reserved :
    \/ i \in Range(HeldIds)
    \/ \E n \in DOMAIN eventListeners : eventListeners[n].eventID = i

\* a label is present
Defined(label) == label.t # "undefined"

\* the runway decoded last and the buffer it was decoded from
LastRunway == detail.airportData.runways[Len(detail.airportData.runways)]
LastBuffer == lastOp[4]

\* a runway was decoded in the last step
RunwayDecoded ==
  /\ lastOp[1] = "facilityData"
  /\ lastOp[3] = 1

\* the runway record is produced, with the labels of its enum fields
\* defined exactly for the indices of the ranges given: surfaces 0..31
\* and 254, designators 0..7, ILS types 0, 65, 86, 78, 87, and runway
\* numbers 0..lastNumber
DecodesWithin(lastNumber) ==
  RunwayDecoded =>
    /\ Len(detail.airportData.runways) >= 1
    /\ LastRunway.length = LastBuffer.length
    /\ Defined(LastRunway.surface)
         <=> LastBuffer.surface \in (0..31) \cup {254}
    /\ Defined(LastRunway.approach[1].marking)
         <=> LastBuffer.primary_number \in 0..lastNumber
    /\ Defined(LastRunway.approach[2].marking)
         <=> LastBuffer.secondary_number \in 0..lastNumber
    /\ Defined(LastRunway.approach[1].designation)
         <=> LastBuffer.primary_designator \in 0..7
    /\ Defined(LastRunway.approach[2].designation)
         <=> LastBuffer.secondary_designator \in 0..7
    /\ Defined(LastRunway.approach[1].ILS.type)
         <=> LastBuffer.primary_ils_type \in {0, 65, 86, 78, 87}
    /\ Defined(LastRunway.approach[2].ILS.type)
         <=> LastBuffer.secondary_ils_type \in {0, 65, 86, 78, 87}

\* C25: decoding a runway yields a defined label for an enum field exactly
\* when its index is inside the table as specified (surface 0..31 or 254,
\* runway number 0..44, designator 0..7, ILS type 0, 65, 86, 78 or 87);
\* any other index yields an absent label, no error is raised and the
\* runway record is produced.
C25_LabelsDefinedInsideTables == DecodesWithin(44)

\* C25 as amended: the same with runway numbers 0..45, the index of the
\* table's entry "last".
C25_LabelsDefinedInsideTablesTo45 == DecodesWithin(45)

\* a runway was decoded whose primary number is 45 and whose primary
\* designator and ILS type lie outside their tables
C25_Witness ==
  /\ RunwayDecoded
  /\ LastBuffer.primary_number = 45
  /\ LastRunway.approach[1].marking = StringValue("last")
  /\ ~Defined(LastRunway.approach[1].designation)
  /\ ~Defined(LastRunway.approach[1].ILS.type)
  /\ LastRunway.surface = StringValue("unknown")

\* the number of calls of handler h in a list of handler calls
CallsOf(called, h) == Cardinality({i \in 1..Len(called) : called[i][1] = h})

\* the number of registrations of handler h in a handler list
RegistrationsOf(handlers, h) ==
  Cardinality({i \in 1..Len(handlers) : handlers[i] = h})

\* C27: when handlers call off or on while an event is dispatched to them,
\* every handler registered when the dispatch began, other than those a
\* called handler removed, is called once per registration, and a handler
\* added during the dispatch is called once per addition.
C27_DispatchSurvivesOffAndOn ==
  [][lastOp'[1] = "dispatch" =>
       \A n \in DOMAIN eventListeners :
         eventListeners[n].eventID = lastOp'[2] =>
           LET script == lastOp'[4]
               before == eventListeners[n].handlers
               called == handlerCalls'
               acts == [i \in 1..Len(called) |-> script[called[i][1]]]
               removed == {acts[i].arg : i \in {j \in 1..Len(called) :
                                                  acts[j].op = "off"}}
               added(h) == Cardinality({i \in 1..Len(called) :
                                          /\ acts[i].op = "on"
                                          /\ acts[i].arg = h})
           IN \A h \in Handlers \cup {"h3"} :
                h \notin removed =>
                  CallsOf(called, h) = RegistrationsOf(before, h) + added(h)]_vars

\* C28: a facilityData or facilityDataEnd message whose userRequestId is
\* not the id of the outstanding detail request neither changes the
\* airport being built nor completes it, and every record of the rebuild
\* has the icao that was requested for it.
C28_ForeignDetailMessagesIgnored ==
  [][/\ (/\ lastOp'[1] \in {"facilityData", "facilityDataEnd"}
         /\ lastOp'[2] # detail.requestID)
          => /\ detail' = detail
             /\ airports' = airports
             /\ pc' = pc
     /\ (pc' = "details" /\ airports'.t = "list")
          => Icaos(airports'.v) = SubSeq(Icaos(list'), 1, Len(airports'.v))]_vars

====
